---- MODULE Spec2Model ----
(***************************************************************************)
(* Model of server.js: the POST /webhook handler, the stores it writes     *)
(* (mongoose models), the event decode chain and broadcastUpdate.          *)
(*                                                                         *)
(* A handler is a process.  Between two awaits JavaScript runs without     *)
(* interruption, so one action is one awaited store operation together     *)
(* with the synchronous code that follows it up to the next await.         *)
(***************************************************************************)
EXTENDS Integers, Sequences, FiniteSets, Bags

\* ------------------------------------------------------------------ bounds
MaxHandlers == 2        \* webhook requests in flight at the same time
MaxDeliveries == 2      \* webhook deliveries received in one behaviour

Handlers == 1..MaxHandlers

\* --------------------------------------------------------------- constants
erc721Address == "0xE64Ea2215CD88a5d3cfe764bCEB2c1e3C60ECfC4"
erc404Address == "0x99A8374c5cf5E45151102F367ada3B47F636951c"
ZeroAddress == "0x0000000000000000000000000000000000000000"

\* A field that is absent from the JSON body (undefined, falsy).
Missing == ""
\* No document (findOne resolved to null).
Null == [isNull |-> TRUE]

\* String.prototype.toLowerCase on the strings that occur in the model.
toLowerCase(s) ==
  CASE s = erc721Address -> "0xe64ea2215cd88a5d3cfe764bceb2c1e3c60ecfc4"
    [] s = erc404Address -> "0x99a8374c5cf5e45151102f367ada3b47f636951c"
    [] s = "0xAA" -> "0xaa"
    [] s = "0xBB" -> "0xbb"
    [] OTHER -> s

\* ------------------------------------------------- decimal strings, BigInt
\* A decimal string is a sequence of characters.
Digits == <<"0", "1", "2", "3", "4", "5", "6", "7", "8", "9">>
DigitChars == {Digits[k] : k \in 1..10}
DigitVal(c) == (CHOOSE k \in 1..10 : Digits[k] = c) - 1

IsDigits(s) == \A k \in 1..Len(s) : s[k] \in DigitChars

\* BigInt(string) throws a SyntaxError when the string is not an integer.
BigIntParses(s) ==
  IF Len(s) > 0 /\ s[1] = "-" THEN Len(s) > 1 /\ IsDigits(Tail(s)) ELSE IsDigits(s)

RECURSIVE DigitsToNat(_)
DigitsToNat(s) ==
  IF Len(s) = 0 THEN 0
  ELSE 10 * DigitsToNat(SubSeq(s, 1, Len(s) - 1)) + DigitVal(s[Len(s)])

BigInt(s) ==
  IF Len(s) > 0 /\ s[1] = "-" THEN 0 - DigitsToNat(Tail(s)) ELSE DigitsToNat(s)

RECURSIVE NatToDigits(_)
NatToDigits(n) ==
  IF n < 10 THEN <<Digits[n + 1]>>
  ELSE Append(NatToDigits(n \div 10), Digits[(n % 10) + 1])

\* BigInt.prototype.toString / BigNumber.prototype.toString
toString(n) == IF n < 0 THEN <<"-">> \o NatToDigits(0 - n) ELSE NatToDigits(n)

\* ------------------------------------------------------------------ stores
\* A collection is a bag of documents: nothing in the model itself keeps two
\* documents with the same key apart, only the unique index checked by
\* create/save does.
VARIABLES
  ProcessedTransaction,   \* bag of [transactionHash]
  ERC721Holding,          \* bag of [tokenId, owner]
  ERC404NFT,              \* bag of [tokenId, owner]
  ERC404Fungible,         \* bag of [address, balance]
  Opening,                \* bag of [tokenId, opener, transactionHash, tokenType]
  MintingDetails,         \* bag of [tokenId, levels, rollResult, payout, transactionHash]
  broadcasts,             \* sequence of [type, data] handed to broadcastUpdate
  \* one webhook request per handler
  pc,                     \* the store operation the handler is awaiting
  req,                    \* req.body
  res,                    \* the responses sent on res, in order
  transferIdx,            \* position in the list being iterated
  side,                   \* "from" or "to": which balance an erc20 entry is updating
  processedTokenIds,      \* the Set of line 394
  doc,                    \* the document loaded by the last findOne
  applied,                \* history: entries whose store update completed
  start,                  \* history: the stores when the request arrived
  seq,                    \* history: the number of the delivery being handled
  thrown,                 \* history: the operations that threw in this handling
  delivered,              \* number of deliveries received so far
  holdingsReq             \* the GET /holdings/:address request being served

stores == <<ProcessedTransaction, ERC721Holding, ERC404NFT, ERC404Fungible,
            Opening, MintingDetails>>
vars == <<ProcessedTransaction, ERC721Holding, ERC404NFT, ERC404Fungible,
          Opening, MintingDetails, broadcasts,
          pc, req, res, transferIdx, side, processedTokenIds, doc, applied,
          start, seq, delivered, thrown, holdingsReq>>

\* The collections and the notifications published so far.
Snapshot ==
  [ProcessedTransaction |-> ProcessedTransaction, ERC721Holding |-> ERC721Holding,
   ERC404NFT |-> ERC404NFT, ERC404Fungible |-> ERC404Fungible,
   Opening |-> Opening, MintingDetails |-> MintingDetails,
   broadcasts |-> broadcasts]
StoresOf(snapshot) == [f \in DOMAIN snapshot \ {"broadcasts"} |-> snapshot[f]]

\* Documents of a collection whose field key equals v.
Matching(coll, key, v) == {d \in BagToSet(coll) : d[key] = v}
\* Number of documents of a collection whose field key equals v.
CountMatching(coll, key, v) ==
  BagCardinality([d \in Matching(coll, key, v) |-> coll[d]])

\* Model.create / save of a new document under the schema's unique index
\* on key (unique: true): a second document with the same key is rejected
\* with a duplicate-key error.
createNoIndex(coll, key, d) == [ok |-> TRUE, coll |-> coll (+) SetToBag({d})]
create(coll, key, d) ==
  IF Matching(coll, key, d[key]) # {}
  THEN [ok |-> FALSE, coll |-> coll]
  ELSE [ok |-> TRUE, coll |-> coll (+) SetToBag({d})]

\* Model.create under a schema without a unique index.
insertOnce(coll, d) == IF d \in BagToSet(coll) THEN coll ELSE coll (+) SetToBag({d})
insert(coll, d) == coll (+) SetToBag({d})

\* Model.findOneAndDelete({key: v}): removes one matching document, if any.
findOneAndDelete(coll, key, v) ==
  IF Matching(coll, key, v) = {} THEN {coll}
  ELSE {coll (-) SetToBag({d}) : d \in Matching(coll, key, v)}

\* document.save() of a document loaded from the collection: an update, by
\* _id, of the paths modified since it was loaded (a document is identified
\* here by its unique key, which is never modified).  An array path that
\* was pushed to is sent as a $push of the new elements, without a version
\* check; any other modified path is sent as a $set.
saveModified(stored, loaded, d) ==
  [f \in DOMAIN stored |->
     IF f = "levels"
     THEN stored[f] \o SubSeq(d[f], Len(loaded[f]) + 1, Len(d[f]))
     ELSE IF d[f] # loaded[f] THEN d[f] ELSE stored[f]]
saveVersioned(coll, key, loaded, d) ==
  IF loaded \notin Matching(coll, key, d[key])
  THEN [ok |-> FALSE, coll |-> coll]
  ELSE [ok |-> TRUE, coll |-> (coll (-) SetToBag({loaded})) (+) SetToBag({d})]
save(coll, key, loaded, d) ==
  IF Matching(coll, key, d[key]) = {}
  THEN [ok |-> FALSE, coll |-> coll]
  ELSE LET stored == CHOOSE o \in Matching(coll, key, d[key]) : TRUE
       IN [ok |-> TRUE,
           coll |-> (coll (-) SetToBag({stored}))
                      (+) SetToBag({saveModified(stored, loaded, d)})]

\* Model.findOne({key: v}): one matching document, or null.
findOne(coll, key, v) ==
  IF Matching(coll, key, v) = {} THEN {Null} ELSE Matching(coll, key, v)

\* ----------------------------------------------------------------- request
\* line 368
transactionHashAnyNft(body) ==
  LET S == {k \in 1..Len(body.nftTransfers) : body.nftTransfers[k].transactionHash # Missing}
  IN IF S # {}
     THEN body.nftTransfers[CHOOSE k \in S : \A j \in S : k <= j].transactionHash
     ELSE IF Len(body.erc20Transfers) > 0
          THEN body.erc20Transfers[1].transactionHash
          ELSE Missing
transactionHash(body) ==
  IF Len(body.nftTransfers) > 0 /\ body.nftTransfers[1].transactionHash # Missing
  THEN body.nftTransfers[1].transactionHash
  ELSE IF Len(body.erc20Transfers) > 0
       THEN body.erc20Transfers[1].transactionHash
       ELSE Missing

isERC721(contract) == toLowerCase(contract) = toLowerCase(erc721Address)
isERC404(contract) == toLowerCase(contract) = toLowerCase(erc404Address)

\* line 399
nftValid(t) ==
  t.contract # Missing /\ t.tokenId # Missing /\ t.from # Missing /\ t.to # Missing

\* An nftTransfers entry that reaches a store operation: it passes the
\* validation of line 399 and the duplicate check of line 405 and its
\* contract is one of the two tracked ones.
nftReachesStoreNoDedup(t, seen) ==
  nftValid(t) /\ (isERC721(t.contract) \/ isERC404(t.contract))
nftReachesStore(t, seen) ==
  /\ nftValid(t)
  /\ t.tokenId \notin seen
  /\ isERC721(t.contract) \/ isERC404(t.contract)

\* line 439
erc20Valid(t) ==
  t.contract # Missing /\ t.from # Missing /\ t.to # Missing /\ t.value # <<>>

erc20ReachesStore(t) == erc20Valid(t) /\ isERC404(t.contract)

\* ------------------------------------------------------------ event decoder
EventNames ==
  <<"TicketMinted", "TicketOpeningInitiated", "TicketResolved", "RewardPaid",
    "PoolDeposited", "PoolWithdrawn">>

\* The topic hash of an event of eventABIs: the hash is modelled by the
\* signature it is the hash of (distinct signatures, distinct hashes).
eventTopic(name) ==
  CASE name = "TicketMinted" -> "TicketMinted(address,uint256,bool,(uint256,uint256,uint256)[])"
    [] name = "TicketOpeningInitiated" -> "TicketOpeningInitiated(uint256,address)"
    [] name = "TicketResolved" -> "TicketResolved(uint256,uint256,uint256)"
    [] name = "RewardPaid" -> "RewardPaid(address,uint256,uint256)"
    [] name = "PoolDeposited" -> "PoolDeposited(address,uint256)"
    [] name = "PoolWithdrawn" -> "PoolWithdrawn(address,uint256)"

\* Number of indexed parameters of an event of eventABIs.
indexedCount(name) ==
  CASE name = "TicketMinted" -> 2
    [] name = "TicketOpeningInitiated" -> 2
    [] name = "TicketResolved" -> 1
    [] name = "RewardPaid" -> 2
    [] name = "PoolDeposited" -> 1
    [] name = "PoolWithdrawn" -> 1

\* A topic slot that is null in the payload.
NoTopic == -1

\* [topic0, topic1, topic2, topic3].filter(Boolean), without its first
\* element topic0 (which line 462 has found to be present): the words the
\* indexed parameters are read from.
RECURSIVE filterBoolean(_)
filterBoolean(ts) ==
  IF Len(ts) = 0 THEN <<>>
  ELSE IF Head(ts) = NoTopic THEN filterBoolean(Tail(ts))
       ELSE <<Head(ts)>> \o filterBoolean(Tail(ts))

topicsOf(log) == filterBoolean(<<log.topic1, log.topic2, log.topic3>>)

\* The data of a log is a sequence of 32-byte words.  A dynamic array is
\* encoded as the offset (in words) of its length word, followed there by
\* the length and the elements.
levelsOffset(data) == data[2]
levelsCount(data) == data[levelsOffset(data) + 1]

\* Whether the non-indexed parameters of the event can be read from data
\* without running past its end.
dataDecodes(name, data) ==
  CASE name = "TicketMinted" ->
         /\ Len(data) >= 2
         /\ levelsOffset(data) + 1 <= Len(data)
         /\ levelsOffset(data) + 1 + 3 * levelsCount(data) <= Len(data)
    [] name = "TicketOpeningInitiated" -> TRUE
    [] name = "TicketResolved" -> Len(data) >= 2
    [] name = "RewardPaid" -> Len(data) >= 1
    [] name = "PoolDeposited" -> Len(data) >= 1
    [] name = "PoolWithdrawn" -> Len(data) >= 1

\* interfaces[name].parseLog({data, topics}) returns (does not throw).
parseLogSucceeds(name, log) ==
  /\ log.topic0 = eventTopic(name)
  /\ Len(topicsOf(log)) >= indexedCount(name)
  /\ dataDecodes(name, log.data)

\* The decode chain of lines 477-538: the name of the first interface, in
\* the order of EventNames, whose parseLog returns; Missing when all throw.
RECURSIVE decodeFrom(_, _)
decodeFrom(k, log) ==
  IF k > Len(EventNames) THEN Missing
  ELSE IF parseLogSucceeds(EventNames[k], log) THEN EventNames[k]
       ELSE decodeFrom(k + 1, log)

eventNameSkipFirst(log) == decodeFrom(2, log)
eventName(log) == decodeFrom(1, log)

\* ethers returns an address parameter as a checksummed string.
getAddress(word) == IF word = 1 THEN "0xAA" ELSE "0xBB"

\* args of the decoded log
argsTokenId(name, log) ==
  IF name \in {"TicketMinted", "RewardPaid"} THEN topicsOf(log)[2] ELSE topicsOf(log)[1]
argsOpener(log) == getAddress(topicsOf(log)[2])
argsLevels(log) ==
  [k \in 1..levelsCount(log.data) |->
     [rollNumber |-> log.data[levelsOffset(log.data) + 1 + 3 * (k - 1) + 1],
      winPercentage |-> log.data[levelsOffset(log.data) + 1 + 3 * (k - 1) + 2],
      winAmount |-> log.data[levelsOffset(log.data) + 1 + 3 * (k - 1) + 3]]]

\* lines 468-470
tokenType(log) ==
  IF isERC721(log.address) THEN "ERC721"
  ELSE IF isERC404(log.address) THEN "ERC404" ELSE Missing

\* A log that reaches a store operation: it has a topic0, comes from a
\* tracked contract and decodes as an event that is stored.
logRecognised(log) ==
  /\ log.topic0 # Missing
  /\ tokenType(log) # Missing
  /\ eventName(log) # Missing
logReachesStore(log) ==
  /\ logRecognised(log)
  /\ eventName(log) \in {"TicketMinted", "TicketOpeningInitiated", "TicketResolved", "RewardPaid"}
\* ------------------------------------------------ control flow of a handler
\* The value pc/transferIdx/side take next.  A handler that is "done" has
\* sent the response [status, message].
Await(op, i, sd) == [pc |-> op, idx |-> i, side |-> sd, status |-> 0, message |-> ""]
Respond(status, message) ==
  [pc |-> "done", idx |-> 0, side |-> "from", status |-> status, message |-> message]

\* lines 631-634: the catch of the whole handler
webhookCatch500 == Respond(500, "Error occurred but returning 200 to prevent retries")
webhookCatchMarks == Await("markProcessed", 0, "from")
webhookCatch == Respond(200, "Error occurred but returning 200 to prevent retries")

FirstIdx(S) == IF S = {} THEN 0 ELSE CHOOSE j \in S : \A k \in S : j <= k

\* After log number i: the next log that reaches a store operation (lines
\* 456-475, 538), or the ProcessedTransaction.create of line 627.
AfterLogs(body, i) ==
  LET j == FirstIdx({k \in (i + 1)..Len(body.logs) : logReachesStore(body.logs[k])})
  IN IF j = 0 THEN Await("markProcessed", 0, "from")
     ELSE IF eventName(body.logs[j]) = "TicketOpeningInitiated"
          THEN Await("openingCreate", j, "from")
          ELSE Await("mintingFindOne", j, "from")

\* lines 619-622: the catch inside the loop over the logs goes on with the
\* next log.
logCatchRethrows(body, i) == webhookCatch
logCatch(body, i) == AfterLogs(body, i)

\* lines 447-450: the balance an erc20Transfers entry updates first.
firstSideAlwaysFrom(transfer) == "from"
firstSide(transfer) == IF transfer.from # ZeroAddress THEN "from" ELSE "to"

\* After erc20Transfers entry number i (lines 435-453).
AfterErc20(body, i) ==
  LET j == FirstIdx({k \in (i + 1)..Len(body.erc20Transfers) :
                       erc20ReachesStore(body.erc20Transfers[k])})
  IN IF j = 0 THEN AfterLogs(body, 0)
     ELSE Await("balanceFindOne", j, firstSide(body.erc20Transfers[j]))

\* After nftTransfers entry number i (lines 392-432).
AfterNftLogsNext(body, i, seen) ==
  LET j == FirstIdx({k \in (i + 1)..Len(body.nftTransfers) :
                       nftReachesStore(body.nftTransfers[k], seen)})
  IN IF j = 0 THEN AfterLogs(body, 0)
     ELSE IF body.nftTransfers[j].from # ZeroAddress
          THEN Await("nftFindOneAndDelete", j, "from")
          ELSE Await("nftCreate", j, "from")
AfterNft(body, i, seen) ==
  LET j == FirstIdx({k \in (i + 1)..Len(body.nftTransfers) :
                       nftReachesStore(body.nftTransfers[k], seen)})
  IN IF j = 0 THEN AfterErc20(body, 0)
     ELSE IF body.nftTransfers[j].from # ZeroAddress
          THEN Await("nftFindOneAndDelete", j, "from")
          ELSE Await("nftCreate", j, "from")

Jump(h, k) ==
  /\ pc' = [pc EXCEPT ![h] = k.pc]
  /\ transferIdx' = [transferIdx EXCEPT ![h] = k.idx]
  /\ side' = [side EXCEPT ![h] = k.side]
  /\ res' = IF k.pc = "done"
            THEN [res EXCEPT ![h] = Append(@, [status |-> k.status, message |-> k.message])]
            ELSE res

\* The awaited operation of h throws.
Throws(h) ==
  thrown' = [thrown EXCEPT ![h] = @ \cup {[op |-> pc[h], idx |-> transferIdx[h]]}]

NoDoc == [isNew |-> FALSE, loaded |-> Null, d |-> Null]
NothingApplied == [nft |-> {}, erc20 |-> {}, logs |-> {}]

\* ------------------------------------------------------------------ actions
\* lines 360-376: what a delivery does before its first await.
firstAwaitIgnoreConfirmed(body) ==
  IF transactionHash(body) = Missing
  THEN Respond(200, "No transaction hash found")
  ELSE Await("processedFindOne", 0, "from")
firstAwaitNoHashCheck(body) ==
  IF body.confirmed
  THEN Respond(200, "Skipped confirmed transaction")
  ELSE Await("processedFindOne", 0, "from")
firstAwait(body) ==
  IF body.confirmed
  THEN Respond(200, "Skipped confirmed transaction")
  ELSE IF transactionHash(body) = Missing
       THEN Respond(200, "No transaction hash found")
       ELSE Await("processedFindOne", 0, "from")

\* The handler a new delivery is given to: handlers are interchangeable, so
\* it is the first that has handled nothing yet or, when there is none, the
\* one whose handling ended longest ago.
FreeSlot(h) ==
  IF \E g \in Handlers : pc[g] = "idle"
  THEN pc[h] = "idle" /\ \A g \in 1..(h - 1) : pc[g] # "idle"
  ELSE pc[h] = "done" /\ \A g \in Handlers : pc[g] = "done" => seq[h] <= seq[g]

\* lines 358-376: a delivery arrives; the code up to the first await.
Receive(h, body) ==
  /\ FreeSlot(h)
  /\ delivered < MaxDeliveries
  /\ delivered' = delivered + 1
  /\ req' = [req EXCEPT ![h] = body]
  /\ start' = [start EXCEPT ![h] = Snapshot]
  /\ seq' = [seq EXCEPT ![h] = delivered + 1]
  /\ thrown' = [thrown EXCEPT ![h] = {}]
  /\ processedTokenIds' = [processedTokenIds EXCEPT ![h] = {}]
  /\ doc' = [doc EXCEPT ![h] = NoDoc]
  /\ applied' = [applied EXCEPT ![h] = NothingApplied]
  /\ pc' = [pc EXCEPT ![h] = firstAwait(body).pc]
  /\ transferIdx' = [transferIdx EXCEPT ![h] = 0]
  /\ side' = [side EXCEPT ![h] = "from"]
  /\ res' = [res EXCEPT ![h] =
               IF firstAwait(body).pc = "done"
               THEN <<[status |-> firstAwait(body).status,
                       message |-> firstAwait(body).message]>>
               ELSE <<>>]
  /\ UNCHANGED <<stores, broadcasts, holdingsReq>>

\* lines 376-392: the idempotency check.
ProcessedFindOne(h) ==
  /\ pc[h] = "processedFindOne"
  /\ \E existingTransaction \in
         findOne(ProcessedTransaction, "transactionHash", transactionHash(req[h])) :
       IF existingTransaction # Null
       THEN Jump(h, Respond(200, "Transaction already processed"))
       ELSE Jump(h, AfterNft(req[h], 0, {}))
  /\ UNCHANGED <<stores, broadcasts, req, processedTokenIds, doc, applied, start, seq, delivered, thrown,
                 holdingsReq>>

\* lines 418 and 425: findOneAndDelete({ tokenId }) of a non-mint transfer.
NftFindOneAndDelete(h) ==
  /\ pc[h] = "nftFindOneAndDelete"
  /\ LET transfer == req[h].nftTransfers[transferIdx[h]]
     IN IF isERC721(transfer.contract)
        THEN /\ ERC721Holding' \in findOneAndDelete(ERC721Holding, "tokenId", transfer.tokenId)
             /\ UNCHANGED ERC404NFT
        ELSE /\ ERC404NFT' \in findOneAndDelete(ERC404NFT, "tokenId", transfer.tokenId)
             /\ UNCHANGED ERC721Holding
  /\ Jump(h, Await("nftCreate", transferIdx[h], "from"))
  /\ UNCHANGED <<ProcessedTransaction, ERC404Fungible, Opening, MintingDetails,
                 broadcasts, req, processedTokenIds, doc, applied, start, seq, delivered, thrown,
                 holdingsReq>>

\* lines 420 and 427: the document created for a transfer
holdingRaw(transfer) == [tokenId |-> transfer.tokenId, owner |-> transfer.to]
holding(transfer) == [tokenId |-> transfer.tokenId, owner |-> toLowerCase(transfer.to)]

\* lines 420 and 427-431: create({ tokenId, owner }), then on to the next entry.
NftCreate(h) ==
  /\ pc[h] = "nftCreate"
  /\ LET transfer == req[h].nftTransfers[transferIdx[h]]
         is721 == isERC721(transfer.contract)
         r == create(IF is721 THEN ERC721Holding ELSE ERC404NFT, "tokenId", holding(transfer))
         seen == IF is721 THEN processedTokenIds[h]
                 ELSE processedTokenIds[h] \cup {transfer.tokenId}
     IN IF r.ok
        THEN /\ ERC721Holding' = IF is721 THEN r.coll ELSE ERC721Holding
             /\ ERC404NFT' = IF is721 THEN ERC404NFT ELSE r.coll
             /\ processedTokenIds' = [processedTokenIds EXCEPT ![h] = seen]
             /\ applied' = [applied EXCEPT ![h].nft = @ \cup {transferIdx[h]}]
             /\ Jump(h, AfterNft(req[h], transferIdx[h], seen))
             /\ UNCHANGED thrown
        ELSE /\ UNCHANGED <<ERC721Holding, ERC404NFT, processedTokenIds, applied>>
             /\ Jump(h, webhookCatch)
             /\ Throws(h)
  /\ UNCHANGED <<ProcessedTransaction, ERC404Fungible, Opening, MintingDetails,
                 broadcasts, req, doc, start, seq, delivered, holdingsReq>>

\* lines 627-630: ProcessedTransaction.create and the success response.
MarkProcessed(h) ==
  /\ pc[h] = "markProcessed"
  /\ LET r == create(ProcessedTransaction, "transactionHash",
                     [transactionHash |-> transactionHash(req[h])])
     IN IF r.ok
        THEN /\ ProcessedTransaction' = r.coll
             /\ Jump(h, Respond(200, "Holdings updated successfully"))
             /\ UNCHANGED thrown
        ELSE /\ UNCHANGED ProcessedTransaction
             /\ Jump(h, webhookCatch)
             /\ Throws(h)
  /\ UNCHANGED <<ERC721Holding, ERC404NFT, ERC404Fungible, Opening, MintingDetails,
                 broadcasts, req, processedTokenIds, doc, applied, start, seq, delivered,
                 holdingsReq>>
\* lines 350-352: the new balance
newBalanceAlwaysAdd(currentBalance, amountBigInt, isAddition) ==
  currentBalance + amountBigInt
newBalance(currentBalance, amountBigInt, isAddition) ==
  IF isAddition THEN currentBalance + amountBigInt ELSE currentBalance - amountBigInt

\* lines 341-352 of updateERC404FungibleBalance, called from 448 or 450:
\* findOne({ address }), then the new balance is computed.
BalanceFindOne(h) ==
  /\ pc[h] = "balanceFindOne"
  /\ LET transfer == req[h].erc20Transfers[transferIdx[h]]
         address == toLowerCase(IF side[h] = "from" THEN transfer.from ELSE transfer.to)
     IN \E found \in findOne(ERC404Fungible, "address", address) :
          LET balance == IF found = Null
                         THEN [address |-> address, balance |-> <<"0">>] ELSE found
              updated == toString(newBalance(BigInt(balance.balance),
                                             BigInt(transfer.value), side[h] = "to"))
          IN IF BigIntParses(transfer.value)
             THEN /\ doc' = [doc EXCEPT ![h] =
                               [isNew |-> found = Null, loaded |-> balance,
                                d |-> [balance EXCEPT !.balance = updated]]]
                  /\ Jump(h, Await("balanceSave", transferIdx[h], side[h]))
                  /\ UNCHANGED thrown
             ELSE /\ UNCHANGED doc
                  /\ Jump(h, webhookCatch)
                  /\ Throws(h)
  /\ UNCHANGED <<stores, broadcasts, req, processedTokenIds, applied, start, seq, delivered,
                 holdingsReq>>

\* line 354: balance.save(), then back in the loop of lines 436-452.
BalanceSave(h) ==
  /\ pc[h] = "balanceSave"
  /\ LET r == IF doc[h].isNew
              THEN create(ERC404Fungible, "address", doc[h].d)
              ELSE save(ERC404Fungible, "address", doc[h].loaded, doc[h].d)
     IN IF r.ok
        THEN /\ ERC404Fungible' = r.coll
             /\ UNCHANGED thrown
             /\ IF side[h] = "from"
                THEN /\ Jump(h, Await("balanceFindOne", transferIdx[h], "to"))
                     /\ UNCHANGED applied
                ELSE /\ Jump(h, AfterErc20(req[h], transferIdx[h]))
                     /\ applied' = [applied EXCEPT ![h].erc20 = @ \cup {transferIdx[h]}]
        ELSE /\ UNCHANGED <<ERC404Fungible, applied>>
             /\ Jump(h, webhookCatch)
             /\ Throws(h)
  /\ doc' = [doc EXCEPT ![h] = NoDoc]
  /\ UNCHANGED <<ProcessedTransaction, ERC721Holding, ERC404NFT, Opening, MintingDetails,
                 broadcasts, req, processedTokenIds, start, seq, delivered, holdingsReq>>

\* rollResult of a MintingDetails document that has none
Unset == -1

\* lines 559-565 and 584-609: the changes a decoded log makes to the
\* MintingDetails document it loaded.
mintingUpdatePrepends(d, log) ==
  IF eventName(log) = "TicketMinted"
  THEN [d EXCEPT !.levels =
          [k \in 1..Len(argsLevels(log)) |->
             [winAmount |-> toString(argsLevels(log)[k].winAmount),
              rollNumber |-> argsLevels(log)[k].rollNumber]] \o @]
  ELSE IF eventName(log) = "TicketResolved"
       THEN [d EXCEPT !.rollResult = log.data[1], !.payout = toString(log.data[2])]
       ELSE [d EXCEPT !.rollResult = 0, !.payout = toString(log.data[1])]
mintingUpdateKeepsRoll(d, log) ==
  IF eventName(log) = "TicketMinted"
  THEN [d EXCEPT !.levels = @ \o
          [k \in 1..Len(argsLevels(log)) |->
             [winAmount |-> toString(argsLevels(log)[k].winAmount),
              rollNumber |-> argsLevels(log)[k].rollNumber]]]
  ELSE IF eventName(log) = "TicketResolved"
       THEN [d EXCEPT !.rollResult = log.data[1], !.payout = toString(log.data[2])]
       ELSE [d EXCEPT !.payout = toString(log.data[1])]
mintingUpdateAsReward(d, log) ==
  IF eventName(log) = "TicketMinted"
  THEN [d EXCEPT !.levels = @ \o
          [k \in 1..Len(argsLevels(log)) |->
             [winAmount |-> toString(argsLevels(log)[k].winAmount),
              rollNumber |-> argsLevels(log)[k].rollNumber]]]
  ELSE [d EXCEPT !.rollResult = 0, !.payout = toString(log.data[1])]
mintingUpdate(d, log) ==
  LET name == eventName(log)
  IN IF name = "TicketMinted"
     THEN [d EXCEPT !.levels = @ \o
             [k \in 1..Len(argsLevels(log)) |->
                [winAmount |-> toString(argsLevels(log)[k].winAmount),
                 rollNumber |-> argsLevels(log)[k].rollNumber]]]
     ELSE IF name = "TicketResolved"
          THEN [d EXCEPT !.rollResult = log.data[1], !.payout = toString(log.data[2])]
          ELSE [d EXCEPT !.rollResult = 0, !.payout = toString(log.data[1])]

\* lines 548-565 and 597-609: MintingDetails.findOne({ tokenId }) and the
\* changes made to the document before it is saved.
MintingFindOne(h) ==
  /\ pc[h] = "mintingFindOne"
  /\ LET log == req[h].logs[transferIdx[h]]
         tokenId == toString(argsTokenId(eventName(log), log))
     IN \E found \in findOne(MintingDetails, "tokenId", tokenId) :
          LET mintingDetails ==
                IF found = Null
                THEN [tokenId |-> tokenId, levels |-> <<>>, rollResult |-> Unset,
                      payout |-> <<>>, transactionHash |-> transactionHash(req[h])]
                ELSE found
          IN doc' = [doc EXCEPT ![h] =
                       [isNew |-> found = Null, loaded |-> mintingDetails,
                        d |-> mintingUpdate(mintingDetails, log)]]
  /\ Jump(h, Await("mintingSave", transferIdx[h], "from"))
  /\ UNCHANGED <<stores, broadcasts, req, processedTokenIds, applied, start, seq, delivered, thrown,
                 holdingsReq>>

\* lines 840-847
broadcastUpdateDropped(type, data) == broadcasts
broadcastUpdate(type, data) == Append(broadcasts, [type |-> type, data |-> data])

\* lines 567-571 and 611-614: mintingDetails.save() and the broadcast; a
\* rejected save is caught at line 619 and the loop goes on.
MintingSave(h) ==
  /\ pc[h] = "mintingSave"
  /\ LET r == IF doc[h].isNew
              THEN create(MintingDetails, "tokenId", doc[h].d)
              ELSE save(MintingDetails, "tokenId", doc[h].loaded, doc[h].d)
     IN IF r.ok
        THEN /\ MintingDetails' = r.coll
             /\ broadcasts' = broadcastUpdate("MINTING_DETAILS_UPDATED",
                                              [tokenId |-> doc[h].d.tokenId])
             /\ applied' = [applied EXCEPT ![h].logs = @ \cup {transferIdx[h]}]
             /\ UNCHANGED thrown
        ELSE /\ UNCHANGED <<MintingDetails, broadcasts, applied>>
             /\ Throws(h)
  /\ Jump(h, AfterLogs(req[h], transferIdx[h]))
  /\ doc' = [doc EXCEPT ![h] = NoDoc]
  /\ UNCHANGED <<ProcessedTransaction, ERC721Holding, ERC404NFT, ERC404Fungible, Opening,
                 req, processedTokenIds, start, seq, delivered, holdingsReq>>

\* lines 572-581: Opening.create (the schema has no unique index).
OpeningCreate(h) ==
  /\ pc[h] = "openingCreate"
  /\ LET log == req[h].logs[transferIdx[h]]
     IN Opening' = insert(Opening,
          [tokenId |-> toString(argsTokenId(eventName(log), log)),
           opener |-> toLowerCase(argsOpener(log)),
           transactionHash |-> transactionHash(req[h]),
           tokenType |-> tokenType(log)])
  /\ applied' = [applied EXCEPT ![h].logs = @ \cup {transferIdx[h]}]
  /\ Jump(h, AfterLogs(req[h], transferIdx[h]))
  /\ UNCHANGED <<ProcessedTransaction, ERC721Holding, ERC404NFT, ERC404Fungible,
                 MintingDetails, broadcasts, req, processedTokenIds, doc, start, seq, delivered, thrown,
                 holdingsReq>>

\* An awaited store operation rejects (connection lost, timeout) and leaves
\* the store as it was.  Inside the loop over the logs the rejection is
\* caught at line 619 and the loop goes on; anywhere else it is caught at
\* line 631.
LogOps == {"mintingFindOne", "mintingSave", "openingCreate"}
TransferOps == {"processedFindOne", "nftFindOneAndDelete", "nftCreate",
                "balanceFindOne", "balanceSave", "markProcessed"}
StoreFails(h) ==
  /\ pc[h] \in LogOps \cup TransferOps
  /\ IF pc[h] \in LogOps
     THEN Jump(h, logCatch(req[h], transferIdx[h]))
     ELSE Jump(h, webhookCatch)
  /\ Throws(h)
  /\ doc' = [doc EXCEPT ![h] = NoDoc]
  /\ UNCHANGED <<stores, broadcasts, req, processedTokenIds, applied, start, seq, delivered,
                 holdingsReq>>
\* -------------------------------------------------- GET /holdings/:address
\* Model.find({key: v}): the matching documents.
find(coll, key, v) == [d \in Matching(coll, key, v) |-> coll[d]]

\* docs.map(doc => doc.tokenId); the order of the list is not modelled.
RECURSIVE mapTokenId(_)
mapTokenId(docs) ==
  IF docs = EmptyBag THEN EmptyBag
  ELSE LET d == CHOOSE x \in BagToSet(docs) : TRUE
       IN mapTokenId([x \in BagToSet(docs) \ {d} |-> docs[x]])
            (+) [t \in {d.tokenId} |-> docs[d]]

NoHoldingsReq ==
  [pc |-> "idle", address |-> Missing, fungibleBalance |-> Null,
   erc404NFTs |-> EmptyBag, res |-> <<>>]

\* line 641
addressRaw(address) == address
addressLower(address) == toLowerCase(address)

\* lines 638-644: a request arrives; the code up to the first await.
HoldingsReceive(address) ==
  /\ holdingsReq.pc \in {"idle", "done"}
  /\ \A h \in Handlers : pc[h] \in {"idle", "done"}
  /\ holdingsReq' = [NoHoldingsReq EXCEPT !.pc = "fungibleFindOne", !.address = address]
  /\ UNCHANGED <<stores, broadcasts, pc, req, res, transferIdx, side, processedTokenIds,
                 doc, applied, start, seq, delivered, thrown>>

\* line 644: ERC404Fungible.findOne({ address }) || { balance: '0' }
HoldingsFungibleFindOne ==
  /\ holdingsReq.pc = "fungibleFindOne"
  /\ \E found \in findOne(ERC404Fungible, "address", addressLower(holdingsReq.address)) :
       holdingsReq' =
         [holdingsReq EXCEPT !.pc = "erc404NFTFind",
            !.fungibleBalance = IF found = Null THEN [balance |-> <<"0">>] ELSE found]
  /\ UNCHANGED <<stores, broadcasts, pc, req, res, transferIdx, side, processedTokenIds,
                 doc, applied, start, seq, delivered, thrown>>

\* line 647: ERC404NFT.find({ owner })
HoldingsERC404NFTFind ==
  /\ holdingsReq.pc = "erc404NFTFind"
  /\ holdingsReq' =
       [holdingsReq EXCEPT !.pc = "erc721HoldingFind",
          !.erc404NFTs = find(ERC404NFT, "owner", addressLower(holdingsReq.address))]
  /\ UNCHANGED <<stores, broadcasts, pc, req, res, transferIdx, side, processedTokenIds,
                 doc, applied, start, seq, delivered, thrown>>

\* lines 650-658: ERC721Holding.find({ owner }) and the response.
HoldingsERC721HoldingFind ==
  /\ holdingsReq.pc = "erc721HoldingFind"
  /\ LET erc721Tokens == find(ERC721Holding, "owner", addressLower(holdingsReq.address))
     IN holdingsReq' =
          [holdingsReq EXCEPT !.pc = "done",
             !.res = <<[status |-> 200,
                        body |-> [erc404 |-> [fungible |-> holdingsReq.fungibleBalance.balance,
                                              nfts |-> mapTokenId(holdingsReq.erc404NFTs)],
                                  erc721 |-> mapTokenId(erc721Tokens)]]>>]
  /\ UNCHANGED <<stores, broadcasts, pc, req, res, transferIdx, side, processedTokenIds,
                 doc, applied, start, seq, delivered, thrown>>

\* lines 659-661: an awaited query rejects.
HoldingsFails ==
  /\ holdingsReq.pc \in {"fungibleFindOne", "erc404NFTFind", "erc721HoldingFind"}
  /\ holdingsReq' =
       [holdingsReq EXCEPT !.pc = "done",
          !.res = <<[status |-> 500, body |-> [error |-> "Error fetching holdings"]]>>]
  /\ UNCHANGED <<stores, broadcasts, pc, req, res, transferIdx, side, processedTokenIds,
                 doc, applied, start, seq, delivered, thrown>>

\* ---------------------------------------------------------------- payloads
NftTransfer(contract, tokenId, from, to) ==
  [transactionHash |-> Missing, contract |-> contract, tokenId |-> tokenId,
   from |-> from, to |-> to]
Erc20Transfer(contract, from, to, value) ==
  [transactionHash |-> Missing, contract |-> contract, from |-> from, to |-> to,
   value |-> value]
Log(address, topic0, topic1, topic2, topic3, data) ==
  [address |-> address, topic0 |-> topic0, topic1 |-> topic1, topic2 |-> topic2,
   topic3 |-> topic3, data |-> data]
Body(confirmed, nftTransfers, erc20Transfers, logs) ==
  [confirmed |-> confirmed, nftTransfers |-> nftTransfers,
   erc20Transfers |-> erc20Transfers, logs |-> logs]

\* The transfers of one transaction carry its hash.
Stamp(hash, transfers) ==
  [k \in 1..Len(transfers) |-> [transfers[k] EXCEPT !.transactionHash = hash]]

\* nftTransfers entries
Mint721 == NftTransfer(erc721Address, "1", ZeroAddress, "0xAA")
Move721 == NftTransfer(erc721Address, "1", "0xaa", "0xBB")
Back721 == NftTransfer(erc721Address, "1", "0xbb", "0xAA")
Mint404 == NftTransfer(toLowerCase(erc404Address), "1", ZeroAddress, "0xAA")
Move404 == NftTransfer(erc404Address, "1", "0xaa", "0xBB")
Back404 == NftTransfer(erc404Address, "1", "0xbb", "0xAA")
NoTokenId == NftTransfer(erc721Address, Missing, "0xaa", "0xBB")
Untracked == NftTransfer("0xother", "1", "0xaa", "0xBB")

NftLists ==
  <<<<Mint721>>, <<Move721>>, <<Move721, Back721>>, <<Mint404>>, <<Move404, Back404>>,
    <<Move404, Move721>>, <<NoTokenId, Move721>>, <<Untracked, Move404>>>>
NftPayloads ==
  {Body(FALSE, Stamp(<<"0xh1", "0xh2", "0xh3", "0xh4", "0xh5", "0xh6", "0xh7", "0xh8">>[k],
                     NftLists[k]), <<>>, <<>>) : k \in 1..Len(NftLists)}
RacingNftPayloads ==
  {body \in NftPayloads :
     body.nftTransfers \in {Stamp("0xh1", <<Mint721>>), Stamp("0xh2", <<Move721>>),
                            Stamp("0xh4", <<Mint404>>), Stamp("0xh5", <<Move404, Back404>>)}}

\* erc20Transfers entries
Pay == Erc20Transfer(erc404Address, "0xAA", "0xbb", <<"2">>)
PayBack == Erc20Transfer(toLowerCase(erc404Address), "0xbb", "0xAA", <<"2">>)
MintFungible == Erc20Transfer(erc404Address, ZeroAddress, "0xAA", <<"3">>)
PaySelf == Erc20Transfer(erc404Address, "0xaa", "0xAA", <<"1">>)
BadValue == Erc20Transfer(erc404Address, "0xAA", "0xbb", <<"1", ".", "5">>)
NoValue == Erc20Transfer(erc404Address, "0xAA", "0xbb", <<>>)
OtherToken == Erc20Transfer("0xother", "0xAA", "0xbb", <<"2">>)

Erc20Lists ==
  <<<<Pay>>, <<PayBack>>, <<Pay, PayBack>>, <<MintFungible>>, <<PaySelf>>,
    <<Pay, BadValue>>, <<OtherToken, NoValue, MintFungible>>>>
FungiblePayloads ==
  {Body(FALSE, <<>>,
        Stamp(<<"0xh1", "0xh2", "0xh3", "0xh4", "0xh5", "0xh6", "0xh7">>[k], Erc20Lists[k]),
        <<>>) : k \in 1..Len(Erc20Lists)}

\* logs.  The data of MintedLog: isETHVersion, the offset of levels, one
\* level (rollNumber 3, winPercentage 50, winAmount 7).
MintedLog ==
  Log(erc721Address, eventTopic("TicketMinted"), 1, 1, NoTopic, <<1, 2, 1, 3, 50, 7>>)
\* levels announces two elements and holds one
ShortMintedLog ==
  Log(erc721Address, eventTopic("TicketMinted"), 1, 1, NoTopic, <<1, 2, 2, 3, 50, 7>>)
\* the indexed topics follow a null slot; two levels
ShiftedMintedLog ==
  Log(erc721Address, eventTopic("TicketMinted"), NoTopic, 1, 1,
      <<0, 2, 2, 4, 25, 8, 5, 75, 6>>)
OpeningLog ==
  Log(toLowerCase(erc404Address), eventTopic("TicketOpeningInitiated"), 1, 1, NoTopic, <<>>)
ResolvedLog ==
  Log(erc721Address, eventTopic("TicketResolved"), 1, NoTopic, NoTopic, <<4, 9>>)
RewardLog ==
  Log(erc721Address, eventTopic("RewardPaid"), 2, 1, NoTopic, <<5>>)
DepositedLog ==
  Log(erc404Address, eventTopic("PoolDeposited"), 1, NoTopic, NoTopic, <<6>>)
WithdrawnLog ==
  Log(erc404Address, eventTopic("PoolWithdrawn"), 1, NoTopic, NoTopic, <<6>>)
TransferLog ==
  Log(erc721Address, "Transfer(address,address,uint256)", 1, 2, 1, <<>>)
NoTopic0Log == Log(erc721Address, Missing, 1, 1, NoTopic, <<1, 2, 1, 3, 50, 7>>)
OtherContractLog ==
  Log("0xother", eventTopic("TicketMinted"), 1, 1, NoTopic, <<1, 2, 1, 3, 50, 7>>)

\* The transfer the logs of a payload come with: it carries the hash.
Carrier == NftTransfer("0xother", "9", ZeroAddress, "0xAA")

LogLists ==
  <<<<MintedLog, ResolvedLog>>, <<ResolvedLog, RewardLog>>, <<OpeningLog, OpeningLog>>,
    <<ShortMintedLog, MintedLog>>,
    <<TransferLog, DepositedLog, WithdrawnLog, ShiftedMintedLog>>,
    <<NoTopic0Log, OtherContractLog, RewardLog>>>>
LogPayloads ==
  {Body(FALSE, Stamp(<<"0xh1", "0xh2", "0xh3", "0xh4", "0xh5", "0xh6">>[k], <<Carrier>>),
        <<>>, LogLists[k]) : k \in 1..Len(LogLists)}

\* Deliveries that are skipped, and deliveries with transfers and logs.
Confirmed ==
  Body(TRUE, Stamp("0xh1", <<Mint721>>), Stamp("0xh1", <<Pay>>), <<MintedLog>>)
LogsOnly == Body(FALSE, <<>>, <<>>, <<MintedLog>>)
Minting ==
  Body(FALSE, Stamp("0xh2", <<Mint721>>), Stamp("0xh2", <<MintFungible>>),
       <<MintedLog, OpeningLog>>)
Resolving ==
  Body(FALSE, Stamp("0xh3", <<Move721>>), Stamp("0xh3", <<Pay, BadValue>>),
       <<ResolvedLog>>)
\* the first nftTransfers entry carries no hash, the first erc20Transfers
\* entry carries one, later entries carry another
SecondHash ==
  Body(FALSE, <<NftTransfer(erc721Address, "2", ZeroAddress, "0xBB")>>
                \o Stamp("0xh5", <<Mint404>>),
       Stamp("0xh4", <<Pay>>) \o Stamp("0xh5", <<NoValue>>), <<TransferLog, RewardLog>>)

Payloads == {Confirmed, LogsOnly, Minting, Resolving}
SeqPayloads == Payloads \cup {SecondHash}

\* ------------------------------------------------------------ specifications
EmptyBody == Body(FALSE, <<>>, <<>>, <<>>)

\* The server has started; no request has arrived yet.
InitHandlers ==
  /\ broadcasts = <<>>
  /\ pc = [h \in Handlers |-> "idle"]
  /\ req = [h \in Handlers |-> EmptyBody]
  /\ res = [h \in Handlers |-> <<>>]
  /\ transferIdx = [h \in Handlers |-> 0]
  /\ side = [h \in Handlers |-> "from"]
  /\ processedTokenIds = [h \in Handlers |-> {}]
  /\ doc = [h \in Handlers |-> NoDoc]
  /\ applied = [h \in Handlers |-> NothingApplied]
  /\ seq = [h \in Handlers |-> 0]
  /\ thrown = [h \in Handlers |-> {}]
  /\ delivered = 0
  /\ holdingsReq = NoHoldingsReq

\* The database holds what earlier deliveries left in it: a balance.
Init ==
  /\ ProcessedTransaction = EmptyBag
  /\ ERC721Holding = EmptyBag
  /\ ERC404NFT = EmptyBag
  /\ ERC404Fungible = SetToBag({[address |-> "0xaa", balance |-> <<"1", "1">>]})
  /\ Opening = EmptyBag
  /\ MintingDetails = EmptyBag
  /\ InitHandlers
  /\ start = [h \in Handlers |-> Snapshot]

\* The database is empty, or holds token "1" of both classes, owned by 0xaa.
InitNft ==
  /\ ProcessedTransaction = EmptyBag
  /\ ERC721Holding \in {EmptyBag, SetToBag({[tokenId |-> "1", owner |-> "0xaa"]})}
  /\ ERC404NFT = ERC721Holding
  /\ ERC404Fungible = EmptyBag
  /\ Opening = EmptyBag
  /\ MintingDetails = EmptyBag
  /\ InitHandlers
  /\ start = [h \in Handlers |-> Snapshot]

\* A delivery that arrives while no other is being handled.
ReceiveAlone(h, body) ==
  /\ \A g \in Handlers : pc[g] \in {"idle", "done"}
  /\ Receive(h, body)

\* The store operations of a handler.
Settles(h) ==
  \/ ProcessedFindOne(h)
  \/ NftFindOneAndDelete(h)
  \/ NftCreate(h)
  \/ BalanceFindOne(h)
  \/ BalanceSave(h)
  \/ MintingFindOne(h)
  \/ MintingSave(h)
  \/ OpeningCreate(h)
  \/ MarkProcessed(h)

Step(h) == Settles(h) \/ StoreFails(h)

\* Concurrent deliveries: the store operations of the handlers interleave.
Next ==
  \E h \in Handlers :
    \/ \E body \in Payloads : Receive(h, body)
    \/ Step(h)

Spec == Init /\ [][Next]_vars

\* Deliveries handled one after the other.
NextSeq ==
  \E h \in Handlers :
    \/ \E body \in SeqPayloads : ReceiveAlone(h, body)
    \/ Step(h)

SpecSeq == Init /\ [][NextSeq]_vars

\* Deliveries handled one after the other by a database that rejects an
\* operation only for a duplicate key.
NextSeqNoOutage ==
  \E h \in Handlers :
    \/ \E body \in SeqPayloads : ReceiveAlone(h, body)
    \/ Settles(h)

SpecSeqNoOutage == Init /\ [][NextSeqNoOutage]_vars

\* The NFT transfers of deliveries: concurrent, and one after the other.
NftStep(h) ==
  \/ ProcessedFindOne(h)
  \/ NftFindOneAndDelete(h)
  \/ NftCreate(h)
  \/ MarkProcessed(h)
  \/ StoreFails(h)

NextNft ==
  \E h \in Handlers :
    \/ \E body \in RacingNftPayloads : Receive(h, body)
    \/ NftStep(h)

SpecNft == InitNft /\ [][NextNft]_vars

NextNftSeq ==
  \E h \in Handlers :
    \/ \E body \in NftPayloads : ReceiveAlone(h, body)
    \/ NftStep(h)

SpecNftSeq == InitNft /\ [][NextNftSeq]_vars

\* The fungible transfers of deliveries handled one after the other.
InitFungible ==
  /\ ProcessedTransaction = EmptyBag
  /\ ERC721Holding = EmptyBag
  /\ ERC404NFT = EmptyBag
  /\ ERC404Fungible \in
       {EmptyBag,
        SetToBag({[address |-> "0xaa", balance |-> <<"1", "1">>],
                  [address |-> "0xbb", balance |-> <<"9">>]})}
  /\ Opening = EmptyBag
  /\ MintingDetails = EmptyBag
  /\ InitHandlers
  /\ start = [h \in Handlers |-> Snapshot]

FungibleStep(h) ==
  \/ ProcessedFindOne(h)
  \/ BalanceFindOne(h)
  \/ BalanceSave(h)
  \/ MarkProcessed(h)
  \/ StoreFails(h)

NextFungibleSeq ==
  \E h \in Handlers :
    \/ \E body \in FungiblePayloads : ReceiveAlone(h, body)
    \/ FungibleStep(h)

SpecFungibleSeq == InitFungible /\ [][NextFungibleSeq]_vars

\* The logs of deliveries handled one after the other.
InitLogs ==
  /\ ProcessedTransaction = EmptyBag
  /\ ERC721Holding = EmptyBag
  /\ ERC404NFT = EmptyBag
  /\ ERC404Fungible = EmptyBag
  /\ Opening = EmptyBag
  /\ MintingDetails = EmptyBag
  /\ InitHandlers
  /\ start = [h \in Handlers |-> Snapshot]

LogsStep(h) ==
  \/ ProcessedFindOne(h)
  \/ MintingFindOne(h)
  \/ MintingSave(h)
  \/ OpeningCreate(h)
  \/ MarkProcessed(h)
  \/ StoreFails(h)

NextLogsSeq ==
  \E h \in Handlers :
    \/ \E body \in LogPayloads : ReceiveAlone(h, body)
    \/ LogsStep(h)

SpecLogsSeq == InitLogs /\ [][NextLogsSeq]_vars
\* ------------------------------------------------------------------- claims
Sent(h, message) == pc[h] = "done" /\ res[h] = <<[status |-> 200, message |-> message]>>
Succeeded(h) == Sent(h, "Holdings updated successfully")
Failed(h) == Sent(h, "Error occurred but returning 200 to prevent retries")

\* h2 handled the delivery that followed the one h1 handled, and nothing
\* has been delivered since.
LastTwo(h1, h2) ==
  /\ pc[h1] = "done" /\ pc[h2] = "done"
  /\ seq[h1] >= 1 /\ seq[h2] = seq[h1] + 1 /\ delivered = seq[h2]

\* C1: an unconfirmed payload whose transaction hash has no
\* ProcessedTransaction record, handled twice one after the other, leaves
\* exactly one ProcessedTransaction record for the hash, and the stores
\* after the second handling are the stores after the first.
C1_HandledTwiceAppliedOnce ==
  \A h1, h2 \in Handlers :
    ( /\ LastTwo(h1, h2)
      /\ req[h1] = req[h2]
      /\ ~req[h1].confirmed
      /\ transactionHash(req[h1]) # Missing
      /\ CountMatching(start[h1].ProcessedTransaction, "transactionHash",
                       transactionHash(req[h1])) = 0 )
    => /\ CountMatching(ProcessedTransaction, "transactionHash",
                        transactionHash(req[h1])) = 1
       /\ StoresOf(Snapshot) = StoresOf(start[h2])

\* C2: the step that receives a payload with confirmed = true answers 200
\* with the skip message, ends the handling and changes no store and
\* publishes nothing; a confirmed payload is never in flight.
C2_ConfirmedSkipped ==
  [][\A h \in Handlers :
       /\ req'[h].confirmed =>
            Sent(h, "Skipped confirmed transaction")' /\ applied'[h] = NothingApplied
       /\ (seq'[h] # seq[h] /\ req'[h].confirmed) => Snapshot' = Snapshot]_vars

C2_Witness ==
  \E h \in Handlers :
    /\ req[h] = Confirmed /\ pc[h] = "done" /\ seq[h] = 2
    /\ ERC721Holding = EmptyBag /\ MintingDetails = EmptyBag

\* C3: a handling that has ended has sent exactly one response, with status
\* 200; a handling that has not ended has sent none.
C3_AlwaysOne200 ==
  \A h \in Handlers :
    /\ pc[h] = "done" => Len(res[h]) = 1 /\ res[h][1].status = 200
    /\ pc[h] # "done" => res[h] = <<>>

\* a handling aborted by a rejected save after its first balance update
C3_Witness ==
  \E h \in Handlers :
    /\ Failed(h) /\ applied[h].erc20 = {1} /\ req[h] = Resolving
    /\ ERC404Fungible # start[h].ERC404Fungible
\* C4: the step that applies an nftTransfers entry with a non-zero from
\* address (its create succeeds) leaves exactly one record for the tokenId in
\* the store of the entry's class, owned by the lower-cased to address, and
\* no record for the tokenId was left in that store just before the insert.
C4_TransferReplacesOwner ==
  [][\A h \in Handlers :
       ( /\ pc[h] = "nftCreate"
         /\ applied'[h].nft # applied[h].nft
         /\ req[h].nftTransfers[transferIdx[h]].from # ZeroAddress )
       => LET transfer == req[h].nftTransfers[transferIdx[h]]
              before == IF isERC721(transfer.contract) THEN ERC721Holding ELSE ERC404NFT
              after == IF isERC721(transfer.contract) THEN ERC721Holding' ELSE ERC404NFT'
          IN /\ CountMatching(after, "tokenId", transfer.tokenId) = 1
             /\ Matching(after, "tokenId", transfer.tokenId)
                  = {[tokenId |-> transfer.tokenId,
                      owner |-> IF transfer.to = "0xAA" THEN "0xaa" ELSE "0xbb"]}
             /\ Matching(before, "tokenId", transfer.tokenId) = {}]_vars

\* token "1" of the ERC721 contract has moved from 0xaa to 0xBB
C4_Witness ==
  \E h \in Handlers :
    /\ req[h].nftTransfers = Stamp("0xh2", <<Move721>>) /\ applied[h].nft = {1}
    /\ start[h].ERC721Holding = SetToBag({[tokenId |-> "1", owner |-> "0xaa"]})
    /\ ERC721Holding = SetToBag({[tokenId |-> "1", owner |-> "0xbb"]})

\* C5: each ownership store holds at most one record per tokenId.
C5_OneOwnerPerToken ==
  /\ \A d \in BagToSet(ERC721Holding) :
       CountMatching(ERC721Holding, "tokenId", d.tokenId) = 1
  /\ \A d \in BagToSet(ERC404NFT) :
       CountMatching(ERC404NFT, "tokenId", d.tokenId) = 1

\* two deliveries that both found token "1" absent have both tried to
\* create its record; one was rejected and its handling aborted
C5_Witness ==
  \E h1, h2 \in Handlers :
    /\ h1 # h2
    /\ req[h1].nftTransfers = Stamp("0xh1", <<Mint721>>) /\ req[h2] = req[h1]
    /\ start[h1].ERC721Holding = EmptyBag /\ start[h2].ERC721Holding = EmptyBag
    /\ Succeeded(h1)
    /\ Failed(h2) /\ thrown[h2] = {[op |-> "nftCreate", idx |-> 1]}
    /\ CountMatching(ERC721Holding, "tokenId", "1") = 1

\* An ERC404 entry that comes after a well-formed ERC404 entry with the same
\* tokenId in the same payload, and the first such entry.
Earlier404(body, j) ==
  {i \in 1..(j - 1) :
     /\ nftValid(body.nftTransfers[i]) /\ isERC404(body.nftTransfers[i].contract)
     /\ body.nftTransfers[i].tokenId = body.nftTransfers[j].tokenId}
IsDuplicate404(body, j) ==
  /\ nftValid(body.nftTransfers[j]) /\ isERC404(body.nftTransfers[j].contract)
  /\ Earlier404(body, j) # {}

\* C6: of two well-formed entries for the same tokenId on the ERC404
\* contract in one payload the second is never applied, no delete and no
\* insert is made for it, and when the handling has succeeded (and no other
\* delivery was handled since) the owner of the tokenId is the first entry's
\* lower-cased to address.
C6_Duplicate404Suppressed ==
  \A h \in Handlers : \A j \in 1..Len(req[h].nftTransfers) :
    IsDuplicate404(req[h], j) =>
      /\ j \notin applied[h].nft
      /\ ~(pc[h] \in {"nftFindOneAndDelete", "nftCreate"} /\ transferIdx[h] = j)
      /\ (Succeeded(h) /\ delivered = seq[h]) =>
           LET first == req[h].nftTransfers[FirstIdx(Earlier404(req[h], j))]
           IN Matching(ERC404NFT, "tokenId", first.tokenId)
                = {[tokenId |-> first.tokenId,
                    owner |-> IF first.to = "0xAA" THEN "0xaa" ELSE "0xbb"]}

C6_Witness ==
  \E h \in Handlers :
    /\ Succeeded(h) /\ req[h].nftTransfers = Stamp("0xh5", <<Move404, Back404>>)
    /\ applied[h].nft = {1}
    /\ start[h].ERC404NFT = SetToBag({[tokenId |-> "1", owner |-> "0xaa"]})
    /\ ERC404NFT = SetToBag({[tokenId |-> "1", owner |-> "0xbb"]})

\* C7: when a handling has succeeded, every well-formed nftTransfers entry
\* on the ERC721 contract has been applied, whatever came before it in the
\* payload.
C7_No721Dropped ==
  \A h \in Handlers :
    Succeeded(h) =>
      \A j \in 1..Len(req[h].nftTransfers) :
        (nftValid(req[h].nftTransfers[j]) /\ isERC721(req[h].nftTransfers[j].contract))
          => j \in applied[h].nft

\* The balance of an address: "0" when it has no record.
BalanceOf(coll, address) ==
  IF Matching(coll, "address", address) = {} THEN <<"0">>
  ELSE (CHOOSE d \in Matching(coll, "address", address) : TRUE).balance

\* y transfers back what x transferred, between non-zero addresses.
IsInverse(x, y) ==
  /\ erc20ReachesStore(x) /\ erc20ReachesStore(y)
  /\ x.from # ZeroAddress /\ x.to # ZeroAddress
  /\ toLowerCase(y.from) = toLowerCase(x.to) /\ toLowerCase(y.to) = toLowerCase(x.from)
  /\ y.value = x.value

\* C8: a fungible transfer followed by its inverse, in one payload or in two
\* payloads handled one after the other, leaves the balance strings of both
\* addresses as they were before.
C8_InverseRestoresBalance ==
  /\ \A h \in Handlers :
       ( /\ Succeeded(h) /\ delivered = seq[h]
         /\ Len(req[h].erc20Transfers) = 2
         /\ IsInverse(req[h].erc20Transfers[1], req[h].erc20Transfers[2]) )
       => \A a \in {"0xaa", "0xbb"} :
            BalanceOf(ERC404Fungible, a) = BalanceOf(start[h].ERC404Fungible, a)
  /\ \A h1, h2 \in Handlers :
       ( /\ LastTwo(h1, h2) /\ Succeeded(h1) /\ Succeeded(h2)
         /\ Len(req[h1].erc20Transfers) = 1 /\ Len(req[h2].erc20Transfers) = 1
         /\ IsInverse(req[h1].erc20Transfers[1], req[h2].erc20Transfers[1]) )
       => \A a \in {"0xaa", "0xbb"} :
            BalanceOf(ERC404Fungible, a) = BalanceOf(start[h1].ERC404Fungible, a)

\* 2 went from 0xaa (11) to 0xbb (9) and back
C8_Witness ==
  \E h1, h2 \in Handlers :
    /\ LastTwo(h1, h2) /\ Succeeded(h1) /\ Succeeded(h2)
    /\ req[h1].erc20Transfers = Stamp("0xh1", <<Pay>>)
    /\ req[h2].erc20Transfers = Stamp("0xh2", <<PayBack>>)
    /\ start[h1].ERC404Fungible =
         SetToBag({[address |-> "0xaa", balance |-> <<"1", "1">>],
                   [address |-> "0xbb", balance |-> <<"9">>]})
    /\ start[h2].ERC404Fungible =
         SetToBag({[address |-> "0xaa", balance |-> <<"9">>],
                   [address |-> "0xbb", balance |-> <<"1", "1">>]})
    /\ ERC404Fungible = start[h1].ERC404Fungible

\* C9: the balance of every ERC404Fungible record is a non-negative integer.
C9_BalanceNonNegative ==
  \A d \in BagToSet(ERC404Fungible) : Len(d.balance) > 0 /\ IsDigits(d.balance)
\* The positions in EventNames of the interfaces whose parseLog returns.
Decoders(log) == {k \in 1..Len(EventNames) : parseLogSucceeds(EventNames[k], log)}
FromTracked(log) == log.topic0 # Missing /\ tokenType(log) # Missing
LogThrew(h, j) == \E t \in thrown[h] : t.op \in LogOps /\ t.idx = j

\* C10: a log is handled as the first of the six events, in the order
\* TicketMinted, TicketOpeningInitiated, TicketResolved, RewardPaid,
\* PoolDeposited, PoolWithdrawn, whose interface decodes it.  A log that
\* decodes as TicketMinted takes the TicketMinted branch (levels are
\* appended, rollResult and payout are left alone) and is applied unless its
\* store operation throws; a log that no interface decodes reaches no store
\* operation, is never applied and throws nothing; and only a throw outside
\* the loop over the logs makes the handler answer from its catch.
C10_FirstDecoderWins ==
  \A h \in Handlers :
    /\ \A j \in 1..Len(req[h].logs) :
         LET log == req[h].logs[j]
             here == pc[h] \in LogOps /\ transferIdx[h] = j
             name == EventNames[FirstIdx(Decoders(log))]
         IN /\ Decoders(log) = {} =>
                 ~here /\ j \notin applied[h].logs /\ ~LogThrew(h, j)
            /\ (FromTracked(log) /\ parseLogSucceeds("TicketMinted", log)) =>
                 /\ here => pc[h] \in {"mintingFindOne", "mintingSave"}
                 /\ (here /\ pc[h] = "mintingSave") =>
                       doc[h].d = [doc[h].loaded EXCEPT !.levels = @ \o
                                     [k \in 1..Len(argsLevels(log)) |->
                                        [winAmount |-> toString(argsLevels(log)[k].winAmount),
                                         rollNumber |-> argsLevels(log)[k].rollNumber]]]
                 /\ (Succeeded(h) /\ ~LogThrew(h, j)) => j \in applied[h].logs
            /\ here =>
                 /\ Decoders(log) # {}
                 /\ pc[h] = "openingCreate" <=> name = "TicketOpeningInitiated"
                 /\ name \in {"TicketMinted", "TicketOpeningInitiated", "TicketResolved",
                              "RewardPaid"}
                 /\ (pc[h] = "mintingSave" /\ name = "TicketResolved") =>
                       doc[h].d = [doc[h].loaded EXCEPT !.rollResult = log.data[1],
                                                        !.payout = toString(log.data[2])]
                 /\ (pc[h] = "mintingSave" /\ name = "RewardPaid") =>
                       doc[h].d = [doc[h].loaded EXCEPT !.rollResult = 0,
                                                        !.payout = toString(log.data[1])]
    /\ Failed(h) => \E t \in thrown[h] : t.op \in TransferOps

\* a log whose levels cannot be read was skipped and the TicketMinted log
\* after it was stored
C10_Witness ==
  \E h \in Handlers :
    /\ Succeeded(h) /\ req[h].logs = <<ShortMintedLog, MintedLog>>
    /\ applied[h].logs = {2} /\ thrown[h] = {}
    /\ MintingDetails =
         SetToBag({[tokenId |-> <<"1">>,
                    levels |-> <<[winAmount |-> <<"7">>, rollNumber |-> 3]>>,
                    rollResult |-> Unset, payout |-> <<>>,
                    transactionHash |-> "0xh4"]})

\* The MintingDetails record of a tokenId, and its levels (none when there
\* is no record).
DetailsOf(coll, t) == CHOOSE d \in Matching(coll, "tokenId", t) : TRUE
LevelsOf(coll, t) ==
  IF Matching(coll, "tokenId", t) = {} THEN <<>> ELSE DetailsOf(coll, t).levels

LogTokenId(log) == toString(argsTokenId(eventName(log), log))
\* The levels of a TicketMinted log as they are stored.
StoredLevels(log) ==
  [k \in 1..Len(argsLevels(log)) |->
     [winAmount |-> toString(argsLevels(log)[k].winAmount),
      rollNumber |-> argsLevels(log)[k].rollNumber]]

\* The step is the store operation of h that applies the log h is at.
AppliesLog(h) == pc[h] \in LogOps /\ applied'[h].logs # applied[h].logs
\* The applied logs of h, other than i and j, that write the record of t.
OtherWrites(h, i, j, t) ==
  {k \in applied[h].logs \ {i, j} :
     /\ eventName(req[h].logs[k]) \in {"TicketMinted", "TicketResolved", "RewardPaid"}
     /\ LogTokenId(req[h].logs[k]) = t}

\* A handling applied a TicketMinted log (number i) and later a
\* TicketResolved log (number j) for a tokenId that had no record, and
\* nothing else has written the record.
MintedThenResolved(h, i, j) ==
  /\ i \in applied[h].logs /\ j \in applied[h].logs /\ i < j
  /\ eventName(req[h].logs[i]) = "TicketMinted"
  /\ eventName(req[h].logs[j]) = "TicketResolved"
  /\ LogTokenId(req[h].logs[i]) = LogTokenId(req[h].logs[j])
  /\ OtherWrites(h, i, j, LogTokenId(req[h].logs[i])) = {}
  /\ Matching(start[h].MintingDetails, "tokenId", LogTokenId(req[h].logs[i])) = {}
  /\ delivered = seq[h]

\* C11: the step that applies a TicketResolved log leaves one record for
\* its tokenId, with the levels the record had before (none when it had no
\* record) and the event's rollResult and winAmount as rollResult and
\* payout, and leaves every other record alone; and after a TicketMinted log
\* and then a TicketResolved log for a tokenId without a record the record
\* holds exactly the levels of the mint, in order, and the rollResult and
\* winAmount of the resolution.
C11_ResolvedKeepsLevels ==
  [][/\ \A h \in Handlers :
          (AppliesLog(h) /\ eventName(req[h].logs[transferIdx[h]]) = "TicketResolved")
          => LET log == req[h].logs[transferIdx[h]]
                 t == LogTokenId(log)
             IN /\ CountMatching(MintingDetails', "tokenId", t) = 1
                /\ LevelsOf(MintingDetails', t) = LevelsOf(MintingDetails, t)
                /\ DetailsOf(MintingDetails', t).rollResult = log.data[1]
                /\ DetailsOf(MintingDetails', t).payout = toString(log.data[2])
                /\ \A d \in BagToSet(MintingDetails) :
                     d.tokenId # t => CopiesIn(d, MintingDetails') = CopiesIn(d, MintingDetails)
     /\ \A h \in Handlers : \A i, j \in 1..Len(req'[h].logs) :
          MintedThenResolved(h, i, j)'
          => LET mint == req'[h].logs[i]
                 resolved == req'[h].logs[j]
                 t == LogTokenId(mint)
             IN /\ CountMatching(MintingDetails', "tokenId", t) = 1
                /\ LevelsOf(MintingDetails', t) = StoredLevels(mint)
                /\ DetailsOf(MintingDetails', t).rollResult = resolved.data[1]
                /\ DetailsOf(MintingDetails', t).payout = toString(resolved.data[2])]_vars

\* token "1" was minted with one level and resolved with roll 4, payout 9
C11_Witness ==
  \E h \in Handlers :
    /\ Succeeded(h) /\ req[h].logs = <<MintedLog, ResolvedLog>>
    /\ applied[h].logs = {1, 2} /\ MintedThenResolved(h, 1, 2)
    /\ MintingDetails =
         SetToBag({[tokenId |-> <<"1">>,
                    levels |-> <<[winAmount |-> <<"7">>, rollNumber |-> 3]>>,
                    rollResult |-> 4, payout |-> <<"9">>,
                    transactionHash |-> "0xh1"]})

\* The logs of concurrent deliveries, with a database that rejects an
\* operation only for a duplicate key.
RacingLogPayloads ==
  {body \in LogPayloads :
     body.logs \in {<<MintedLog, ResolvedLog>>, <<ResolvedLog, RewardLog>>,
                    <<OpeningLog, OpeningLog>>}}

NextLogsNoOutage ==
  \E h \in Handlers :
    \/ \E body \in RacingLogPayloads : Receive(h, body)
    \/ ProcessedFindOne(h)
    \/ MintingFindOne(h)
    \/ MintingSave(h)
    \/ OpeningCreate(h)
    \/ MarkProcessed(h)

SpecLogsNoOutage == InitLogs /\ [][NextLogsNoOutage]_vars

\* C12: the step in which a MintingDetails save succeeds publishes exactly
\* one MINTING_DETAILS_UPDATED notification carrying the tokenId of the saved
\* record, and no other step (a rejected save, a transfer update, an
\* Opening insert, a response) publishes anything.
C12_OneNotificationPerSave ==
  [][\A h \in Handlers :
       pc'[h] # pc[h] =>
         IF pc[h] = "mintingSave" /\ applied'[h].logs # applied[h].logs
         THEN /\ broadcasts' =
                   Append(broadcasts,
                          [type |-> "MINTING_DETAILS_UPDATED",
                           data |-> [tokenId |-> LogTokenId(req[h].logs[transferIdx[h]])]])
              /\ CountMatching(MintingDetails', "tokenId",
                               LogTokenId(req[h].logs[transferIdx[h]])) = 1
         ELSE broadcasts' = broadcasts]_vars

\* two concurrent deliveries: the save of one was rejected (the record had
\* been created by the other in the meantime), the three other saves were
\* published
C12_Witness ==
  \E h1, h2 \in Handlers :
    /\ h1 # h2 /\ Succeeded(h1) /\ Succeeded(h2)
    /\ req[h1].logs = <<MintedLog, ResolvedLog>> /\ req[h2].logs = <<ResolvedLog, RewardLog>>
    /\ applied[h1].logs = {1, 2} /\ applied[h2].logs = {2}
    /\ thrown[h2] = {[op |-> "mintingSave", idx |-> 1]}
    /\ broadcasts = [k \in 1..3 |-> [type |-> "MINTING_DETAILS_UPDATED",
                                     data |-> [tokenId |-> <<"1">>]]]

\* Holdings queries between deliveries: a query is served while no delivery
\* is being handled, and a delivery arrives while no query is being served.
HoldingsAddresses == {"0xAA", "0xbb", "0xcc"}
HoldingsPayloads == {Minting, Resolving}

InitHoldings ==
  /\ ProcessedTransaction = EmptyBag
  /\ ERC721Holding \in {EmptyBag, SetToBag({[tokenId |-> "1", owner |-> "0xaa"],
                                            [tokenId |-> "2", owner |-> "0xbb"]})}
  /\ ERC404NFT \in {EmptyBag, SetToBag({[tokenId |-> "1", owner |-> "0xaa"],
                                        [tokenId |-> "2", owner |-> "0xaa"]})}
  /\ ERC404Fungible = SetToBag({[address |-> "0xaa", balance |-> <<"1", "1">>]})
  /\ Opening = EmptyBag
  /\ MintingDetails = EmptyBag
  /\ InitHandlers
  /\ start = [h \in Handlers |-> Snapshot]

ReceiveQuiet(h, body) ==
  /\ holdingsReq.pc \in {"idle", "done"}
  /\ ReceiveAlone(h, body)

NextHoldings ==
  \/ \E address \in HoldingsAddresses : HoldingsReceive(address)
  \/ HoldingsFungibleFindOne
  \/ HoldingsERC404NFTFind
  \/ HoldingsERC721HoldingFind
  \/ HoldingsFails
  \/ \E h \in Handlers :
       \/ \E body \in HoldingsPayloads : ReceiveQuiet(h, body)
       \/ Step(h)

SpecHoldings == InitHoldings /\ [][NextHoldings]_vars

\* The tokenIds of the records of a store whose owner is the address.
OwnedTokenIds(coll, address) == {d.tokenId : d \in Matching(coll, "owner", address)}
\* The number of records of a store with the tokenId and the owner.
OwnedCopies(coll, address, t) ==
  BagCardinality([d \in {x \in Matching(coll, "owner", address) : x.tokenId = t} |-> coll[d]])

\* C13: the step in which a holdings query is answered (no delivery was
\* handled while it was served) answers with the stored balance string of the
\* lower-cased address, "0" when it has no record, and with exactly the
\* tokenIds of the ERC404NFT and the ERC721Holding records owned by it; an
\* address with no records gets "0" and two empty lists; and no step of a
\* query changes a store or publishes anything.
C13_HoldingsQuery ==
  [][/\ holdingsReq' # holdingsReq => Snapshot' = Snapshot
     /\ (holdingsReq'.pc = "done" /\ holdingsReq.pc = "erc721HoldingFind"
           /\ holdingsReq'.res[1].status = 200)
        => LET a == IF holdingsReq.address = "0xAA" THEN "0xaa" ELSE holdingsReq.address
               body == holdingsReq'.res[1].body
           IN /\ Len(holdingsReq'.res) = 1
              /\ body.erc404.fungible = BalanceOf(ERC404Fungible, a)
              /\ BagToSet(body.erc404.nfts) = OwnedTokenIds(ERC404NFT, a)
              /\ \A t \in OwnedTokenIds(ERC404NFT, a) :
                   CopiesIn(t, body.erc404.nfts) = OwnedCopies(ERC404NFT, a, t)
              /\ BagToSet(body.erc721) = OwnedTokenIds(ERC721Holding, a)
              /\ \A t \in OwnedTokenIds(ERC721Holding, a) :
                   CopiesIn(t, body.erc721) = OwnedCopies(ERC721Holding, a, t)
              /\ ( /\ Matching(ERC404Fungible, "address", a) = {}
                   /\ Matching(ERC404NFT, "owner", a) = {}
                   /\ Matching(ERC721Holding, "owner", a) = {} )
                 => body = [erc404 |-> [fungible |-> <<"0">>, nfts |-> EmptyBag],
                            erc721 |-> EmptyBag]]_vars

\* after the mint of token "1" and of 3 units to 0xAA, the holdings of 0xAA
C13_Witness ==
  /\ holdingsReq.pc = "done" /\ holdingsReq.address = "0xAA"
  /\ ERC404Fungible = SetToBag({[address |-> "0xaa", balance |-> <<"1", "4">>]})
  /\ ERC404NFT = SetToBag({[tokenId |-> "1", owner |-> "0xaa"],
                           [tokenId |-> "2", owner |-> "0xaa"]})
  /\ ERC721Holding = SetToBag({[tokenId |-> "1", owner |-> "0xaa"]})
  /\ holdingsReq.res =
       <<[status |-> 200,
          body |-> [erc404 |-> [fungible |-> <<"1", "4">>, nfts |-> SetToBag({"1", "2"})],
                    erc721 |-> SetToBag({"1"})]]>>

\* The fungible transfers of concurrent deliveries, with a database that
\* rejects an operation only for a duplicate key.
RacingFungiblePayloads ==
  {body \in FungiblePayloads :
     body.erc20Transfers \in {Stamp("0xh1", <<Pay>>), Stamp("0xh2", <<PayBack>>),
                              Stamp("0xh4", <<MintFungible>>)}}

NextFungibleNoOutage ==
  \E h \in Handlers :
    \/ \E body \in RacingFungiblePayloads : Receive(h, body)
    \/ ProcessedFindOne(h)
    \/ BalanceFindOne(h)
    \/ BalanceSave(h)
    \/ MarkProcessed(h)

SpecFungibleNoOutage == InitFungible /\ [][NextFungibleNoOutage]_vars

\* What the erc20Transfers entries numbered in S add to the balance of an
\* address when each is applied once.
RECURSIVE NetChange(_, _, _)
NetChange(transfers, S, a) ==
  IF S = {} THEN 0
  ELSE LET j == CHOOSE k \in S : TRUE
           x == transfers[j]
       IN NetChange(transfers, S \ {j}, a)
            + (IF toLowerCase(x.to) = a THEN BigInt(x.value) ELSE 0)
            - (IF x.from # ZeroAddress /\ toLowerCase(x.from) = a THEN BigInt(x.value) ELSE 0)

Wellformed20(body) ==
  {k \in 1..Len(body.erc20Transfers) : erc20ReachesStore(body.erc20Transfers[k])}

\* C14: when the only two deliveries are of the same unconfirmed payload
\* and neither found its hash processed on arrival, then once both have
\* ended there is exactly one ProcessedTransaction record for the hash, every
\* balance is what it was before the first plus the payload's transfers
\* applied once, and the delivery whose ProcessedTransaction insert was
\* rejected by the unique index answered 'Transaction already processed'.
C14_ConcurrentAppliedOnce ==
  \A h1, h2 \in Handlers :
    ( /\ h1 # h2 /\ pc[h1] = "done" /\ pc[h2] = "done"
      /\ seq[h1] = 1 /\ seq[h2] = 2 /\ delivered = 2
      /\ req[h1] = req[h2] /\ ~req[h1].confirmed
      /\ transactionHash(req[h1]) # Missing
      /\ \A h \in {h1, h2} :
           Matching(start[h].ProcessedTransaction, "transactionHash",
                    transactionHash(req[h1])) = {} )
    => /\ CountMatching(ProcessedTransaction, "transactionHash",
                        transactionHash(req[h1])) = 1
       /\ \A a \in {"0xaa", "0xbb"} :
            BigInt(BalanceOf(ERC404Fungible, a)) =
              BigInt(BalanceOf(start[h1].ERC404Fungible, a))
                + NetChange(req[h1].erc20Transfers, Wellformed20(req[h1]), a)
       /\ \A h \in {h1, h2} :
            [op |-> "markProcessed", idx |-> 0] \in thrown[h]
              => Sent(h, "Transaction already processed")

\* The sum of the balances of a collection.
RECURSIVE SumBalances(_)
SumBalances(coll) ==
  IF coll = EmptyBag THEN 0
  ELSE LET d == CHOOSE x \in BagToSet(coll) : TRUE
       IN coll[d] * BigInt(d.balance)
            + SumBalances([x \in BagToSet(coll) \ {d} |-> coll[x]])

\* Entry j is the only erc20Transfers entry h has applied, no other entry is
\* half applied, and no other delivery has been handled since h arrived.
OnlyApplied20(h, j) ==
  /\ applied[h].erc20 = {j}
  /\ delivered = seq[h]
  /\ \/ Succeeded(h)
     \/ pc[h] = "markProcessed"
     \/ pc[h] \in {"balanceFindOne", "balanceSave"} /\ side[h] = "from"

\* C15: after one well-formed transfer of v on the ERC404 contract from a
\* to b has been applied (an absent record counts as 0): when a is not the
\* zero address, a's balance is v less and b's is v more than before (the
\* same as before when a = b) and the sum of all balances is unchanged;
\* when a is the zero address, b's balance is v more and there is no record
\* for the zero address; every other balance is unchanged.
C15_TransferMovesAmount ==
  \A h \in Handlers : \A j \in 1..Len(req[h].erc20Transfers) :
    OnlyApplied20(h, j) =>
      LET x == req[h].erc20Transfers[j]
          v == BigInt(x.value)
          a == toLowerCase(x.from)
          b == toLowerCase(x.to)
          New(c) == BigInt(BalanceOf(ERC404Fungible, c))
          Old(c) == BigInt(BalanceOf(start[h].ERC404Fungible, c))
          known == {d.address : d \in BagToSet(ERC404Fungible)}
                     \cup {d.address : d \in BagToSet(start[h].ERC404Fungible)}
                     \cup {"0xaa", "0xbb", ZeroAddress}
      IN /\ erc20ReachesStore(x)
         /\ (x.from # ZeroAddress /\ a # b) => New(a) = Old(a) - v /\ New(b) = Old(b) + v
         /\ (x.from # ZeroAddress /\ a = b) => New(a) = Old(a)
         /\ x.from # ZeroAddress =>
              SumBalances(ERC404Fungible) = SumBalances(start[h].ERC404Fungible)
         /\ x.from = ZeroAddress =>
              /\ New(b) = Old(b) + v
              /\ Matching(ERC404Fungible, "address", ZeroAddress) = {}
              /\ \A c \in known \ {b} : New(c) = Old(c)
         /\ \A c \in known \ {a, b} : New(c) = Old(c)
         /\ \A c \in known : CountMatching(ERC404Fungible, "address", c) <= 1

\* 3 units were minted to 0xAA, which had 11; the entries before the mint
\* in the payload were skipped
C15_Witness ==
  \E h \in Handlers :
    /\ Succeeded(h) /\ OnlyApplied20(h, 3)
    /\ req[h].erc20Transfers = Stamp("0xh7", <<OtherToken, NoValue, MintFungible>>)
    /\ start[h].ERC404Fungible =
         SetToBag({[address |-> "0xaa", balance |-> <<"1", "1">>],
                   [address |-> "0xbb", balance |-> <<"9">>]})
    /\ ERC404Fungible =
         SetToBag({[address |-> "0xaa", balance |-> <<"1", "4">>],
                   [address |-> "0xbb", balance |-> <<"9">>]})

\* The levels of the TicketMinted logs for tokenId t among the first k logs
\* of the payload of h that h has applied, in the order of the payload.
RECURSIVE MintedLevels(_, _, _)
MintedLevels(h, k, t) ==
  IF k = 0 THEN <<>>
  ELSE MintedLevels(h, k - 1, t)
         \o (IF /\ k \in applied[h].logs
                /\ eventName(req[h].logs[k]) = "TicketMinted"
                /\ LogTokenId(req[h].logs[k]) = t
             THEN StoredLevels(req[h].logs[k]) ELSE <<>>)

TokenIds == {<<"1">>, <<"2">>}

\* C16: the step that applies a TicketMinted log leaves one record for its
\* tokenId whose levels are the levels it had before (none when it had no
\* record) followed by the levels of the event, in order; no other step
\* changes the levels of a record or removes a record; and with deliveries
\* handled one after the other the levels of a tokenId are the levels it had
\* before a delivery followed by the levels of the TicketMinted logs the
\* delivery has applied for it, in the order of the payload.
C16_MintAppendsLevels ==
  [][/\ \A h \in Handlers :
          (AppliesLog(h) /\ eventName(req[h].logs[transferIdx[h]]) = "TicketMinted")
          => LET log == req[h].logs[transferIdx[h]]
                 t == LogTokenId(log)
             IN /\ CountMatching(MintingDetails', "tokenId", t) = 1
                /\ LevelsOf(MintingDetails', t) = LevelsOf(MintingDetails, t) \o StoredLevels(log)
                /\ \A d \in BagToSet(MintingDetails) :
                     d.tokenId # t => LevelsOf(MintingDetails', d.tokenId) = d.levels
     /\ (~ \E h \in Handlers :
             AppliesLog(h) /\ eventName(req[h].logs[transferIdx[h]]) = "TicketMinted")
        => \A d \in BagToSet(MintingDetails) :
             /\ Matching(MintingDetails', "tokenId", d.tokenId) # {}
             /\ LevelsOf(MintingDetails', d.tokenId) = d.levels
     /\ \A h \in Handlers : \A t \in TokenIds :
          (delivered' = seq'[h] /\ seq'[h] > 0)
          => LevelsOf(MintingDetails', t) =
               (LevelsOf(start[h].MintingDetails, t)
                 \o MintedLevels(h, Len(req[h].logs), t))']_vars

\* token "1" was minted with one level, and in the next delivery with two
\* more
C16_Witness ==
  \E h1, h2 \in Handlers :
    /\ LastTwo(h1, h2) /\ Succeeded(h1) /\ Succeeded(h2)
    /\ req[h1].logs = <<ShortMintedLog, MintedLog>> /\ applied[h1].logs = {2}
    /\ req[h2].logs = <<TransferLog, DepositedLog, WithdrawnLog, ShiftedMintedLog>>
    /\ applied[h2].logs = {4}
    /\ LevelsOf(start[h2].MintingDetails, <<"1">>) = <<[winAmount |-> <<"7">>, rollNumber |-> 3]>>
    /\ LevelsOf(MintingDetails, <<"1">>) =
         <<[winAmount |-> <<"7">>, rollNumber |-> 3],
           [winAmount |-> <<"8">>, rollNumber |-> 4],
           [winAmount |-> <<"6">>, rollNumber |-> 5]>>

\* The TicketResolved and RewardPaid logs for tokenId t that h has applied.
OutcomeWrites(h, t) ==
  {k \in applied[h].logs :
     /\ eventName(req[h].logs[k]) \in {"TicketResolved", "RewardPaid"}
     /\ LogTokenId(req[h].logs[k]) = t}
LastIdx(S) == CHOOSE j \in S : \A k \in S : k <= j

\* C17: with deliveries handled one after the other, at every point of a
\* handling the rollResult and payout of a tokenId are those written by the
\* last TicketResolved or RewardPaid log the delivery has applied for it
\* (those it had before the delivery when the delivery has applied none): a
\* TicketResolved log writes the event's rollResult and winAmount, a
\* RewardPaid log writes rollResult 0 and the event's amount, and earlier
\* values are replaced.
C17_LastOutcomeWins ==
  \A h \in Handlers : \A t \in TokenIds :
    (delivered = seq[h] /\ seq[h] > 0)
    => IF OutcomeWrites(h, t) # {}
       THEN LET log == req[h].logs[LastIdx(OutcomeWrites(h, t))]
                name == EventNames[FirstIdx(Decoders(log))]
            IN /\ CountMatching(MintingDetails, "tokenId", t) = 1
               /\ name \in {"TicketResolved", "RewardPaid"}
               /\ name = "TicketResolved" =>
                    /\ DetailsOf(MintingDetails, t).rollResult = log.data[1]
                    /\ DetailsOf(MintingDetails, t).payout = toString(log.data[2])
               /\ name = "RewardPaid" =>
                    /\ DetailsOf(MintingDetails, t).rollResult = 0
                    /\ DetailsOf(MintingDetails, t).payout = toString(log.data[1])
       ELSE \A d \in Matching(start[h].MintingDetails, "tokenId", t) :
              /\ DetailsOf(MintingDetails, t).rollResult = d.rollResult
              /\ DetailsOf(MintingDetails, t).payout = d.payout

\* token "1" was resolved with roll 4 and payout 9 by one delivery; the
\* next applied a RewardPaid log of amount 5 for it
C17_Witness ==
  \E h1, h2 \in Handlers :
    /\ LastTwo(h1, h2) /\ Succeeded(h1) /\ Succeeded(h2)
    /\ req[h1].logs = <<MintedLog, ResolvedLog>> /\ applied[h1].logs = {1, 2}
    /\ req[h2].logs = <<NoTopic0Log, OtherContractLog, RewardLog>> /\ applied[h2].logs = {3}
    /\ DetailsOf(start[h2].MintingDetails, <<"1">>).rollResult = 4
    /\ DetailsOf(start[h2].MintingDetails, <<"1">>).payout = <<"9">>
    /\ MintingDetails =
         SetToBag({[tokenId |-> <<"1">>,
                    levels |-> <<[winAmount |-> <<"7">>, rollNumber |-> 3]>>,
                    rollResult |-> 0, payout |-> <<"5">>,
                    transactionHash |-> "0xh1"]})

\* C18: the step that applies a TicketOpeningInitiated log adds exactly one
\* Opening record, with the tokenId and the lower-cased opener of the event,
\* the transaction hash of the payload and the token class of the emitting
\* contract, whether or not an equal record exists, and leaves the other
\* records as they are; no other step of a webhook handling changes Opening.
C18_OpeningsAppendOnly ==
  [][\A h \in Handlers :
       pc'[h] # pc[h] =>
         IF pc[h] = "openingCreate" /\ applied'[h].logs # applied[h].logs
         THEN LET log == req[h].logs[transferIdx[h]]
                  record == [tokenId |-> toString(log.topic1),
                             opener |-> IF log.topic2 = 1 THEN "0xaa" ELSE "0xbb",
                             transactionHash |-> transactionHash(req[h]),
                             tokenType |-> IF isERC721(log.address) THEN "ERC721" ELSE "ERC404"]
              IN /\ log.topic0 = eventTopic("TicketOpeningInitiated")
                 /\ isERC721(log.address) \/ isERC404(log.address)
                 /\ CopiesIn(record, Opening') = CopiesIn(record, Opening) + 1
                 /\ BagCardinality(Opening') = BagCardinality(Opening) + 1
                 /\ \A d \in BagToSet(Opening) : CopiesIn(d, Opening') >= CopiesIn(d, Opening)
         ELSE Opening' = Opening]_vars

\* one payload with two identical TicketOpeningInitiated logs has left two
\* equal records
C18_Witness ==
  \E h \in Handlers :
    /\ Succeeded(h) /\ req[h].logs = <<OpeningLog, OpeningLog>> /\ applied[h].logs = {1, 2}
    /\ start[h].Opening = EmptyBag
    /\ BagToSet(Opening) = {[tokenId |-> <<"1">>, opener |-> "0xaa",
                            transactionHash |-> "0xh3", tokenType |-> "ERC404"]}
    /\ BagCardinality(Opening) = 2

\* C19: when a handling has written the ProcessedTransaction record of its
\* payload, every well-formed transfer of the payload on a tracked contract
\* (other than a suppressed duplicate of an ERC404 tokenId) and every log of
\* the payload that decodes as a stored event has had its store update
\* applied.
C19_MarkedOnlyWhenApplied ==
  \A h \in Handlers :
    Succeeded(h) =>
      /\ CountMatching(ProcessedTransaction, "transactionHash", transactionHash(req[h])) = 1
      /\ \A j \in 1..Len(req[h].nftTransfers) :
           ( /\ nftValid(req[h].nftTransfers[j])
             /\ isERC721(req[h].nftTransfers[j].contract)
                  \/ isERC404(req[h].nftTransfers[j].contract)
             /\ ~IsDuplicate404(req[h], j) )
           => j \in applied[h].nft
      /\ \A j \in 1..Len(req[h].erc20Transfers) :
           erc20ReachesStore(req[h].erc20Transfers[j]) => j \in applied[h].erc20
      /\ \A j \in 1..Len(req[h].logs) :
           logReachesStore(req[h].logs[j]) => j \in applied[h].logs


\* The position of an awaited operation in the handler: the idempotency
\* check, the nftTransfers loop, the erc20Transfers loop, the logs loop, the
\* ProcessedTransaction.create, and the response.
Phase(p) ==
  CASE p = "processedFindOne" -> 1
    [] p \in {"nftFindOneAndDelete", "nftCreate"} -> 2
    [] p \in {"balanceFindOne", "balanceSave"} -> 3
    [] p \in LogOps -> 4
    [] p = "markProcessed" -> 5
    [] OTHER -> 6

\* C20 as stated: while a handling runs, a notification it has published
\* means the ProcessedTransaction record of its payload has been written.
C20_NoNotificationBeforeMarker ==
  \A h \in Handlers :
    ( /\ pc[h] \in LogOps \cup {"markProcessed"}
      /\ Len(broadcasts) > Len(start[h].broadcasts) )
    => CountMatching(ProcessedTransaction, "transactionHash", transactionHash(req[h])) >= 1

\* C20, amended: a handling that is not answered at once (a confirmed
\* delivery, a payload without hash) starts with the idempotency check, then goes
\* through the NFT transfers, the fungible transfers and the logs in that
\* order and never back, the logs being reached only when every fungible
\* transfer that reaches the store has been applied; a notification is
\* published by, and only by, a successful MintingDetails save inside the
\* logs loop; the ProcessedTransaction record is written last, by the step
\* that sends the success response, and that step publishes nothing.
C20_HandlingOrder ==
  [][\A h \in Handlers :
       /\ pc[h] \in {"idle", "done"} /\ pc'[h] # pc[h] =>
            pc'[h] = "processedFindOne" \/ (pc'[h] = "done" /\ stores' = stores)
       /\ pc[h] \notin {"idle", "done"} => Phase(pc'[h]) >= Phase(pc[h])
       /\ pc'[h] \in LogOps \cup {"markProcessed"} =>
            /\ \A j \in 1..Len(req'[h].erc20Transfers) :
                 erc20ReachesStore(req'[h].erc20Transfers[j]) => j \in applied'[h].erc20
            /\ ~(\E t \in thrown'[h] : t.op \notin LogOps)
       /\ applied'[h].logs # applied[h].logs /\ pc[h] = "mintingSave"
            => Len(broadcasts') = Len(broadcasts) + 1
       /\ broadcasts' # broadcasts =>
            \E g \in Handlers : pc[g] = "mintingSave" /\ applied'[g].logs # applied[g].logs
       /\ ProcessedTransaction' # ProcessedTransaction =>
            \E g \in Handlers :
              /\ pc[g] = "markProcessed" /\ pc'[g] = "done"
              /\ Succeeded(g)'
              /\ broadcasts' = broadcasts
              /\ ProcessedTransaction' =
                   insert(ProcessedTransaction, [transactionHash |-> transactionHash(req[g])])
    ]_vars

\* A delivery with an NFT transfer, a fungible transfer, a TicketMinted log
\* and a TicketOpeningInitiated log went through all of them, published the
\* one notification and wrote its record.
C20_Witness ==
  \E h \in Handlers :
    /\ Succeeded(h)
    /\ req[h] = Minting
    /\ applied[h] = [nft |-> {1}, erc20 |-> {1}, logs |-> {1, 2}]
    /\ Len(broadcasts) = Len(start[h].broadcasts) + 1
    /\ CountMatching(ProcessedTransaction, "transactionHash", "0xh2") = 1


\* The operations awaited inside the nftTransfers and erc20Transfers loops.
LoopOps == {"nftFindOneAndDelete", "nftCreate", "balanceFindOne", "balanceSave"}

\* h is the delivery received last.
Latest(h) == \A g \in Handlers : seq[g] <= seq[h]

\* C21: when an operation awaited in the transfer loops is rejected, that
\* step ends the handling with a 200 answer and changes no store (what was
\* applied before stays, nothing more is applied, nothing is published);
\* the handling has then applied no transfer after the failing entry and no
\* log, has answered nothing but the error message, and no
\* ProcessedTransaction record exists for its payload.
C21_TransferFailureStops ==
  [][\A h \in Handlers :
       /\ ( /\ pc[h] \in LoopOps
            /\ thrown'[h] # thrown[h] )
          => /\ pc'[h] = "done"
             /\ res'[h] = <<[status |-> 200,
                             message |-> "Error occurred but returning 200 to prevent retries"]>>
             /\ stores' = stores
             /\ broadcasts' = broadcasts
             /\ applied'[h] = applied[h]
       /\ ( /\ pc'[h] = "done"
            /\ \E t \in thrown'[h] : t.op \in LoopOps )
          => /\ applied'[h].logs = {}
             /\ \A t \in thrown'[h] :
                  /\ t.op \in LoopOps
                  /\ t.op \in {"nftFindOneAndDelete", "nftCreate"} =>
                       /\ applied'[h].erc20 = {}
                       /\ \A j \in applied'[h].nft : j < t.idx
                  /\ t.op \in {"balanceFindOne", "balanceSave"} =>
                       \A j \in applied'[h].erc20 : j < t.idx
             /\ ~Succeeded(h)'
             /\ Latest(h)' =>
                  CountMatching(ProcessedTransaction', "transactionHash",
                                transactionHash(req'[h])) = 0
    ]_vars

\* A delivery whose NFT transfer was applied and whose fungible transfer was
\* rejected by the store: the holding stays, no record is written.
C21_Witness ==
  \E h \in Handlers :
    /\ pc[h] = "done"
    /\ req[h] = Minting
    /\ applied[h] = [nft |-> {1}, erc20 |-> {}, logs |-> {}]
    /\ thrown[h] = {[op |-> "balanceSave", idx |-> 1]}
    /\ CountMatching(ERC721Holding, "tokenId", "1") = 1
    /\ CountMatching(ProcessedTransaction, "transactionHash", "0xh2") = 0


\* The two deliveries h1 and h2 are the only ones, are of different
\* transactions, and both ended with the success response.
BothSucceeded(h1, h2) ==
  /\ h1 # h2 /\ seq[h1] = 1 /\ seq[h2] = 2 /\ delivered = 2
  /\ Succeeded(h1) /\ Succeeded(h2)
  /\ transactionHash(req[h1]) # transactionHash(req[h2])

\* The balance of address a after the well-formed fungible transfers of
\* body are applied once to the stored balances of a snapshot.
After20(snapshot, body, a) ==
  BigInt(BalanceOf(snapshot.ERC404Fungible, a))
    + NetChange(body.erc20Transfers, Wellformed20(body), a)

\* C22: the save of a balance that was loaded earlier is never rejected and
\* stores the value computed from the loaded balance, whatever the balance
\* stored by then (no lock or version check spans the read and the write);
\* so when two deliveries of different transactions are handled
\* concurrently and both succeed, a balance reflects both updates or only
\* one of them.
C22_BalanceWriteIsBlind ==
  [][/\ \A h \in Handlers :
          ( /\ pc[h] = "balanceSave" /\ pc'[h] # pc[h]
            /\ ~doc[h].isNew )
          => /\ thrown'[h] = thrown[h]
             /\ BalanceOf(ERC404Fungible', doc[h].d.address) = doc[h].d.balance
     /\ \A h1, h2 \in Handlers : \A a \in {"0xaa", "0xbb"} :
          BothSucceeded(h1, h2)' =>
            BigInt(BalanceOf(ERC404Fungible', a)) \in
              { After20(start'[h1], req'[h1], a),
                After20(start'[h1], req'[h2], a),
                After20(start'[h1], req'[h1], a)
                  + NetChange(req'[h2].erc20Transfers, Wellformed20(req'[h2]), a) }
    ]_vars

\* The lost update: a transfer of 2 out of 0xaa and a mint of 3 to 0xaa,
\* of different transactions, both arrived while 0xaa held 11, both
\* succeeded, and 0xaa holds 14 (the mint alone) or 9 (the transfer alone),
\* not 12.
C22_Witness ==
  \E h1, h2 \in Handlers :
    /\ BothSucceeded(h1, h2)
    /\ {req[h1].erc20Transfers, req[h2].erc20Transfers} =
         {Stamp("0xh1", <<Pay>>), Stamp("0xh4", <<MintFungible>>)}
    /\ applied[h1].erc20 = {1} /\ applied[h2].erc20 = {1}
    /\ BalanceOf(start[h1].ERC404Fungible, "0xaa") = <<"1", "1">>
    /\ BalanceOf(start[h2].ERC404Fungible, "0xaa") = <<"1", "1">>
    /\ BalanceOf(ERC404Fungible, "0xaa") \in {<<"1", "4">>, <<"9">>}


\* Deliveries whose lists begin with items the handler skips: entries with
\* a missing field or on an untracked contract, logs without topic0, from
\* an untracked contract or that no event of the ABI decodes.
NoTo == NftTransfer(erc404Address, "2", "0xaa", Missing)
NoContract20 == Erc20Transfer(Missing, "0xAA", "0xbb", <<"2">>)
SkipsThenMints ==
  Body(FALSE, Stamp("0xh1", <<NoTokenId, Mint404>>), Stamp("0xh1", <<NoValue, MintFungible>>),
       <<NoTopic0Log, MintedLog, RewardLog>>)
SkipsThenMoves ==
  Body(FALSE, Stamp("0xh2", <<NoTo, Untracked, Move721>>),
       Stamp("0xh2", <<NoContract20, OtherToken, Pay>>),
       <<OtherContractLog, ShortMintedLog, OpeningLog>>)
SkippingPayloads == {SkipsThenMints, SkipsThenMoves}

NextSkipSeq ==
  \E h \in Handlers :
    \/ \E body \in SkippingPayloads : ReceiveAlone(h, body)
    \/ Step(h)

SpecSkipSeq == Init /\ [][NextSkipSeq]_vars

\* The item of its payload that h is awaiting an operation for reaches the
\* store: it is a well-formed entry on a tracked contract, or a log of a
\* tracked contract, with topic0, that decodes as a stored event.
AwaitsGoodItem(h) ==
  /\ pc[h] \in {"nftFindOneAndDelete", "nftCreate"} =>
       LET t == req[h].nftTransfers[transferIdx[h]]
       IN nftValid(t) /\ (isERC721(t.contract) \/ isERC404(t.contract))
  /\ pc[h] \in {"balanceFindOne", "balanceSave"} =>
       erc20ReachesStore(req[h].erc20Transfers[transferIdx[h]])
  /\ pc[h] \in LogOps =>
       LET log == req[h].logs[transferIdx[h]]
       IN log.topic0 # Missing /\ (isERC721(log.address) \/ isERC404(log.address))
            /\ logReachesStore(log)

\* h has gone through its whole payload: every well-formed entry on a
\* tracked contract (that no earlier ERC404 entry of the same tokenId
\* suppresses) is applied, and every log that reaches the store is applied
\* or was rejected by the store.
WentThroughAll(h) ==
  /\ \A j \in 1..Len(req[h].nftTransfers) :
       j \in applied[h].nft <=>
         /\ nftValid(req[h].nftTransfers[j])
         /\ isERC721(req[h].nftTransfers[j].contract)
              \/ isERC404(req[h].nftTransfers[j].contract)
         /\ Earlier404(req[h], j) = {}
  /\ \A j \in 1..Len(req[h].erc20Transfers) :
       j \in applied[h].erc20 <=> erc20ReachesStore(req[h].erc20Transfers[j])
  /\ \A j \in 1..Len(req[h].logs) :
       /\ j \in applied[h].logs => logReachesStore(req[h].logs[j])
       /\ logReachesStore(req[h].logs[j]) =>
            j \in applied[h].logs \/ (\E t \in thrown[h] : t.op \in LogOps /\ t.idx = j)

\* C23: no store operation is ever awaited for a transfer entry with a
\* missing field or on an untracked contract, nor for a log without topic0,
\* from an untracked contract or that does not decode; when the store
\* rejects an operation awaited for a log, that step changes no store and
\* the handling goes on with the next log that reaches the store or, after
\* the last, with ProcessedTransaction.create; a handling arrives at
\* ProcessedTransaction.create only when it has gone through all the items
\* that reach the store; and unless that create is itself rejected, it
\* writes the record and sends the success response.
C23_BadItemsSkipped ==
  [][\A h \in Handlers :
       /\ AwaitsGoodItem(h)'
       /\ (pc[h] \in LogOps /\ thrown'[h] # thrown[h]) =>
            /\ stores' = stores /\ broadcasts' = broadcasts
            /\ pc'[h] \in LogOps \cup {"markProcessed"}
            /\ pc'[h] \in LogOps => transferIdx'[h] > transferIdx[h]
            /\ \A j \in (transferIdx[h] + 1)..Len(req[h].logs) :
                 logReachesStore(req[h].logs[j]) =>
                   pc'[h] \in LogOps /\ transferIdx'[h] <= j
       /\ pc'[h] = "markProcessed" => WentThroughAll(h)'
       /\ (pc[h] = "markProcessed" /\ pc'[h] # pc[h] /\ thrown'[h] = thrown[h]) =>
            /\ Succeeded(h)'
            /\ CountMatching(ProcessedTransaction', "transactionHash",
                             transactionHash(req[h])) = 1
    ]_vars

\* A delivery that began with a transfer without tokenId, a transfer
\* without value and a log without topic0, and whose TicketMinted log was
\* rejected by the store, applied the rest and was marked processed.
C23_Witness ==
  \E h \in Handlers :
    /\ Succeeded(h)
    /\ req[h] = SkipsThenMints
    /\ applied[h] = [nft |-> {2}, erc20 |-> {2}, logs |-> {3}]
    /\ \E t \in thrown[h] : t.idx = 2 /\ t.op \in LogOps
    /\ CountMatching(ProcessedTransaction, "transactionHash", "0xh1") = 1
    /\ CountMatching(ERC404NFT, "tokenId", "1") = 1
    /\ BalanceOf(ERC404Fungible, "0xaa") = <<"1", "4">>


\* The hash carried by the first entry of a list of transfers, if any.
HashOfFirst(transfers) ==
  IF Len(transfers) > 0 THEN transfers[1].transactionHash ELSE Missing
\* The key of a payload: the hash of the first nftTransfers entry or, when
\* that entry is absent or carries none, of the first erc20Transfers entry.
KeyOf(body) ==
  IF HashOfFirst(body.nftTransfers) # Missing
  THEN HashOfFirst(body.nftTransfers)
  ELSE HashOfFirst(body.erc20Transfers)
\* The documents a step added to a collection.
Added(before, after) ==
  {d \in BagToSet(after) : CopiesIn(d, after) > CopiesIn(d, before)}

\* C24: the idempotency check answers 'Transaction already processed'
\* exactly when a ProcessedTransaction record exists for the key of the
\* payload; the record a handling writes is the one record of that key,
\* whatever hashes the other entries of the payload carry; every
\* ProcessedTransaction record is the key of a payload; and every Opening
\* and every new MintingDetails document a handling adds stores the key of
\* its payload.
C24_SingleHashKey ==
  [][\A h \in Handlers :
       pc'[h] # pc[h] /\ thrown'[h] = thrown[h] =>
         /\ pc[h] = "processedFindOne" =>
              ( Sent(h, "Transaction already processed")' <=>
                  CountMatching(ProcessedTransaction, "transactionHash", KeyOf(req[h])) >= 1 )
         /\ pc[h] = "markProcessed" =>
              ProcessedTransaction' =
                ProcessedTransaction (+) SetToBag({[transactionHash |-> KeyOf(req[h])]})
         /\ pc[h] # "markProcessed" => ProcessedTransaction' = ProcessedTransaction
         /\ pc[h] = "openingCreate" =>
              \A d \in Added(Opening, Opening') : d.transactionHash = KeyOf(req[h])
         /\ pc[h] = "mintingSave" =>
              \A d \in Added(MintingDetails, MintingDetails') :
                Matching(MintingDetails, "tokenId", d.tokenId) = {}
                  => d.transactionHash = KeyOf(req[h])
    ]_vars

\* A delivery whose first nftTransfers entry carries no hash, whose first
\* erc20Transfers entry carries 0xh4 and whose other entries carry 0xh5 was
\* recorded under 0xh4 alone, and the MintingDetails document its RewardPaid
\* log created stores 0xh4.
C24_Witness ==
  \E h \in Handlers :
    /\ Succeeded(h)
    /\ req[h] = SecondHash
    /\ CountMatching(ProcessedTransaction, "transactionHash", "0xh4") = 1
    /\ CountMatching(ProcessedTransaction, "transactionHash", "0xh5") = 0
    /\ \E d \in BagToSet(MintingDetails) :
         d.transactionHash = "0xh4" /\ d \notin BagToSet(start[h].MintingDetails)


\* Deliveries without a key: logs only, and transfers whose first entries
\* carry no hash while later ones do; they come among deliveries with a key.
HashlessTransfers ==
  Body(FALSE, <<Mint721>> \o Stamp("0xh5", <<Mint404>>),
       <<MintFungible>> \o Stamp("0xh5", <<Pay>>), <<MintedLog, OpeningLog>>)
HashlessPayloads == {LogsOnly, HashlessTransfers}

NextHashlessSeq ==
  \E h \in Handlers :
    \/ \E body \in HashlessPayloads \cup {Minting, Resolving} : ReceiveAlone(h, body)
    \/ Step(h)

SpecHashlessSeq == Init /\ [][NextHashlessSeq]_vars

\* h holds an unconfirmed payload in which neither the first nftTransfers
\* entry nor the first erc20Transfers entry carries a transactionHash.
Hashless(h) ==
  /\ pc[h] # "idle"
  /\ ~req[h].confirmed
  /\ HashOfFirst(req[h].nftTransfers) = Missing
  /\ HashOfFirst(req[h].erc20Transfers) = Missing

\* C25: the step that receives an unconfirmed payload without a hash on
\* its first nftTransfers entry and on its first erc20Transfers entry
\* answers 200 'No transaction hash found' at once and changes no store
\* and publishes nothing; the handling awaits no store operation, applies
\* no transfer and no log, and leaves the stores and the notifications as
\* it found them.
C25_NoHashNoEffect ==
  [][\A h \in Handlers :
       Hashless(h)' =>
         /\ pc'[h] = "done"
         /\ res'[h] = <<[status |-> 200, message |-> "No transaction hash found"]>>
         /\ applied'[h] = NothingApplied
         /\ thrown'[h] = {}
         /\ seq'[h] # seq[h] => stores' = stores /\ broadcasts' = broadcasts
         /\ Latest(h)' =>
              /\ StoresOf(start'[h]) = StoresOf(Snapshot')
              /\ start'[h].broadcasts = broadcasts'
    ]_vars

\* A delivery with a TicketMinted log and no transfers, and one with
\* transfers whose first entries carry no hash, were answered and left the
\* stores empty of holdings, records and minting details.
C25_Witness ==
  \E h1, h2 \in Handlers :
    /\ req[h1] = LogsOnly /\ req[h2] = HashlessTransfers
    /\ Sent(h1, "No transaction hash found") /\ Sent(h2, "No transaction hash found")
    /\ MintingDetails = EmptyBag /\ ProcessedTransaction = EmptyBag
    /\ ERC721Holding = EmptyBag /\ ERC404NFT = EmptyBag /\ broadcasts = <<>>
====
